---- MODULE Spec2Model ----
(***************************************************************************)
(* Model of the zealc 65816 assembler pipeline: the driver (main.rs), the  *)
(* three AST passes (collect_label_pass.rs, resolve_label_pass.rs,         *)
(* instruction_statement_pass.rs), the opcode table (snes_cpu.rs), the     *)
(* symbol table (symbol_table.rs) and the output writer (output_writer.rs).*)
(* Source tokens are not part of a node here: no pass inspects them, they  *)
(* are only carried along for diagnostics.                                 *)
(***************************************************************************)
EXTENDS Integers, Naturals, Sequences, FiniteSets, TLC

(* ------------------------------------------------------------------ *)
(* system_definition.rs                                                 *)
(* ------------------------------------------------------------------ *)

ArgumentSize == {"Word8", "Word16", "Word24", "Word32"}

argument_size_to_byte_size(size) ==
    CASE size = "Word8" -> 1
      [] size = "Word16" -> 2
      [] size = "Word24" -> 3
      [] size = "Word32" -> 4

argument_size_to_bit_size(size) ==
    CASE size = "Word8" -> 8
      [] size = "Word16" -> 16
      [] size = "Word24" -> 24
      [] size = "Word32" -> 32

\* InstructionArgument: one record shape for the four variants.
Number(size) == [kind |-> "Number", sizes |-> <<size>>, register |-> ""]

Numbers(sizes) == [kind |-> "Numbers", sizes |-> sizes, register |-> ""]

Register(name) == [kind |-> "Register", sizes |-> <<>>, register |-> name]

NotStaticRegister(name) == [kind |-> "NotStaticRegister", sizes |-> <<>>, register |-> name]

\* InstructionInfo
Info(name, addressing, opcode, arguments) ==
    [name |-> name, addressing |-> addressing, opcode |-> opcode, arguments |-> arguments]

\* The largest address the inputs of this model reach stays far below
\* 2^31 (the integers of the checker are 32-bit), hence below the 2^32 at
\* which the u32 `+=` of the passes overflows: u32 addition is addition.
AddU32(a, b) == a + b

(* ------------------------------------------------------------------ *)
(* snes_cpu.rs: the SNES_CPU system definition                          *)
(* ------------------------------------------------------------------ *)

\* The SystemDefinition main selects (selected_cpu) and hands to the lexer,
\* the passes and the writer: static data that no code path modifies.
VARIABLE system

SNES_CPU == [
  short_name |-> "snes-cpu",
  is_big_endian |-> FALSE,
  label_size |-> "Word16",
  registers |-> {"x", "y", "s"},
  instructions |-> <<
    Info("adc", "IndexedIndirect", 97, <<Number("Word8"), Register("x")>>),
    Info("adc", "Indexed", 99, <<Number("Word8"), Register("s")>>),
    Info("adc", "SingleArgument", 101, <<Number("Word8")>>),
    Info("adc", "IndirectLong", 103, <<Number("Word8")>>),
    Info("adc", "Immediate", 105, <<Numbers(<<"Word8", "Word16">>)>>),
    Info("adc", "SingleArgument", 109, <<Number("Word16")>>),
    Info("adc", "SingleArgument", 111, <<Number("Word24")>>),
    Info("adc", "IndirectIndexed", 113, <<Number("Word8"), Register("y")>>),
    Info("adc", "Indirect", 114, <<Number("Word8")>>),
    Info("adc", "StackRelativeIndirectIndexed", 115, <<Number("Word8"), Register("s"), Register("y")>>),
    Info("adc", "Indexed", 117, <<Number("Word8"), Register("x")>>),
    Info("adc", "IndirectIndexedLong", 119, <<Number("Word8"), Register("y")>>),
    Info("adc", "Indexed", 121, <<Number("Word16"), Register("y")>>),
    Info("adc", "Indexed", 125, <<Number("Word16"), Register("x")>>),
    Info("adc", "Indexed", 127, <<Number("Word24"), Register("x")>>),
    Info("and", "IndexedIndirect", 33, <<Number("Word8"), Register("x")>>),
    Info("and", "Indexed", 35, <<Number("Word8"), Register("s")>>),
    Info("and", "SingleArgument", 37, <<Number("Word8")>>),
    Info("and", "IndirectLong", 39, <<Number("Word8")>>),
    Info("and", "Immediate", 41, <<Numbers(<<"Word8", "Word16">>)>>),
    Info("and", "SingleArgument", 45, <<Number("Word16")>>),
    Info("and", "SingleArgument", 47, <<Number("Word24")>>),
    Info("and", "IndirectIndexed", 49, <<Number("Word8"), Register("y")>>),
    Info("and", "Indirect", 50, <<Number("Word8")>>),
    Info("and", "StackRelativeIndirectIndexed", 51, <<Number("Word8"), Register("s"), Register("y")>>),
    Info("and", "Indexed", 53, <<Number("Word8"), Register("x")>>),
    Info("and", "IndirectIndexedLong", 55, <<Number("Word8"), Register("y")>>),
    Info("and", "Indexed", 57, <<Number("Word16"), Register("y")>>),
    Info("and", "Indexed", 61, <<Number("Word16"), Register("x")>>),
    Info("and", "Indexed", 63, <<Number("Word24"), Register("x")>>),
    Info("asl", "SingleArgument", 6, <<Number("Word8")>>),
    Info("asl", "Implied", 10, <<>>),
    Info("asl", "SingleArgument", 14, <<Number("Word16")>>),
    Info("asl", "Indexed", 22, <<Number("Word8"), Register("x")>>),
    Info("asl", "Indexed", 30, <<Number("Word16"), Register("x")>>),
    Info("bcc", "Relative", 144, <<Number("Word8")>>),
    Info("bcs", "Relative", 176, <<Number("Word8")>>),
    Info("beq", "Relative", 240, <<Number("Word8")>>),
    Info("bit", "SingleArgument", 36, <<Number("Word8")>>),
    Info("bit", "SingleArgument", 44, <<Number("Word16")>>),
    Info("bit", "Indexed", 52, <<Number("Word8"), Register("x")>>),
    Info("bit", "Indexed", 60, <<Number("Word16"), Register("x")>>),
    Info("bit", "Immediate", 137, <<Numbers(<<"Word8", "Word16">>)>>),
    Info("bmi", "Relative", 48, <<Number("Word8")>>),
    Info("bne", "Relative", 208, <<Number("Word8")>>),
    Info("bpl", "Relative", 16, <<Number("Word8")>>),
    Info("bra", "Relative", 128, <<Number("Word8")>>),
    Info("brk", "Implied", 0, <<>>),
    Info("brl", "Relative", 130, <<Number("Word16")>>),
    Info("bvc", "Relative", 80, <<Number("Word8")>>),
    Info("bvs", "Relative", 112, <<Number("Word8")>>),
    Info("clc", "Implied", 24, <<>>),
    Info("cld", "Implied", 216, <<>>),
    Info("cli", "Implied", 88, <<>>),
    Info("clv", "Implied", 184, <<>>),
    Info("cmp", "IndexedIndirect", 193, <<Number("Word8"), Register("x")>>),
    Info("cmp", "Indexed", 195, <<Number("Word8"), Register("s")>>),
    Info("cmp", "SingleArgument", 197, <<Number("Word8")>>),
    Info("cmp", "IndirectLong", 199, <<Number("Word8")>>),
    Info("cmp", "Immediate", 201, <<Numbers(<<"Word8", "Word16">>)>>),
    Info("cmp", "SingleArgument", 205, <<Number("Word16")>>),
    Info("cmp", "SingleArgument", 207, <<Number("Word24")>>),
    Info("cmp", "IndirectIndexed", 209, <<Number("Word8"), Register("y")>>),
    Info("cmp", "Indirect", 210, <<Number("Word8")>>),
    Info("cmp", "StackRelativeIndirectIndexed", 211, <<Number("Word8"), Register("s"), Register("y")>>),
    Info("cmp", "Indexed", 213, <<Number("Word8"), Register("x")>>),
    Info("cmp", "IndirectIndexedLong", 215, <<Number("Word8"), Register("y")>>),
    Info("cmp", "Indexed", 217, <<Number("Word16"), Register("y")>>),
    Info("cmp", "Indexed", 221, <<Number("Word16"), Register("x")>>),
    Info("cmp", "Indexed", 223, <<Number("Word24"), Register("x")>>),
    Info("cop", "SingleArgument", 2, <<Number("Word8")>>),
    Info("cpx", "Immediate", 224, <<Numbers(<<"Word8", "Word16">>)>>),
    Info("cpx", "SingleArgument", 228, <<Number("Word8")>>),
    Info("cpx", "SingleArgument", 236, <<Number("Word16")>>),
    Info("cpy", "Immediate", 192, <<Numbers(<<"Word8", "Word16">>)>>),
    Info("cpy", "SingleArgument", 196, <<Number("Word8")>>),
    Info("cpy", "SingleArgument", 204, <<Number("Word16")>>),
    Info("dec", "Implied", 58, <<>>),
    Info("dec", "SingleArgument", 198, <<Number("Word8")>>),
    Info("dec", "SingleArgument", 206, <<Number("Word16")>>),
    Info("dec", "Indexed", 214, <<Number("Word8"), Register("x")>>),
    Info("dec", "Indexed", 222, <<Number("Word16"), Register("x")>>),
    Info("dex", "Implied", 202, <<>>),
    Info("dey", "Implied", 136, <<>>),
    Info("eor", "IndexedIndirect", 65, <<Number("Word8"), Register("x")>>),
    Info("eor", "Indexed", 67, <<Number("Word8"), Register("s")>>),
    Info("eor", "SingleArgument", 69, <<Number("Word8")>>),
    Info("eor", "IndirectLong", 71, <<Number("Word8")>>),
    Info("eor", "Immediate", 73, <<Numbers(<<"Word8", "Word16">>)>>),
    Info("eor", "SingleArgument", 77, <<Number("Word16")>>),
    Info("eor", "SingleArgument", 79, <<Number("Word24")>>),
    Info("eor", "IndirectIndexed", 81, <<Number("Word8"), Register("y")>>),
    Info("eor", "Indirect", 82, <<Number("Word8")>>),
    Info("eor", "StackRelativeIndirectIndexed", 83, <<Number("Word8"), Register("s"), Register("y")>>),
    Info("eor", "Indexed", 85, <<Number("Word8"), Register("x")>>),
    Info("eor", "IndirectIndexedLong", 87, <<Number("Word8"), Register("y")>>),
    Info("eor", "Indexed", 89, <<Number("Word16"), Register("y")>>),
    Info("eor", "Indexed", 93, <<Number("Word16"), Register("x")>>),
    Info("eor", "Indexed", 95, <<Number("Word24"), Register("x")>>),
    Info("inc", "Implied", 26, <<>>),
    Info("inc", "SingleArgument", 230, <<Number("Word8")>>),
    Info("inc", "SingleArgument", 238, <<Number("Word16")>>),
    Info("inc", "Indexed", 246, <<Number("Word8"), Register("x")>>),
    Info("inc", "Indexed", 254, <<Number("Word16"), Register("x")>>),
    Info("inx", "Implied", 232, <<>>),
    Info("iny", "Implied", 200, <<>>),
    Info("jmp", "SingleArgument", 76, <<Number("Word16")>>),
    Info("jml", "SingleArgument", 92, <<Number("Word24")>>),
    Info("jmp", "Indirect", 108, <<Number("Word16")>>),
    Info("jmp", "IndexedIndirect", 124, <<Number("Word16"), Register("x")>>),
    Info("jmp", "IndirectLong", 220, <<Number("Word16")>>),
    Info("jsr", "SingleArgument", 32, <<Number("Word16")>>),
    Info("jsl", "SingleArgument", 34, <<Number("Word24")>>),
    Info("jsr", "IndexedIndirect", 252, <<Number("Word16"), Register("x")>>),
    Info("lda", "IndexedIndirect", 161, <<Number("Word8"), Register("x")>>),
    Info("lda", "Indexed", 163, <<Number("Word8"), Register("s")>>),
    Info("lda", "SingleArgument", 165, <<Number("Word8")>>),
    Info("lda", "IndirectLong", 167, <<Number("Word8")>>),
    Info("lda", "Immediate", 169, <<Numbers(<<"Word8", "Word16">>)>>),
    Info("lda", "SingleArgument", 173, <<Number("Word16")>>),
    Info("lda", "SingleArgument", 175, <<Number("Word24")>>),
    Info("lda", "IndirectIndexed", 177, <<Number("Word8"), Register("y")>>),
    Info("lda", "Indirect", 178, <<Number("Word8")>>),
    Info("lda", "StackRelativeIndirectIndexed", 179, <<Number("Word8"), Register("s"), Register("y")>>),
    Info("lda", "Indexed", 181, <<Number("Word8"), Register("x")>>),
    Info("lda", "IndirectIndexedLong", 183, <<Number("Word8"), Register("y")>>),
    Info("lda", "Indexed", 185, <<Number("Word16"), Register("y")>>),
    Info("lda", "Indexed", 189, <<Number("Word16"), Register("x")>>),
    Info("lda", "Indexed", 191, <<Number("Word24"), Register("x")>>),
    Info("ldx", "Immediate", 162, <<Numbers(<<"Word8", "Word16">>)>>),
    Info("ldx", "SingleArgument", 166, <<Number("Word8")>>),
    Info("ldx", "SingleArgument", 174, <<Number("Word16")>>),
    Info("ldx", "Indexed", 182, <<Number("Word8"), Register("y")>>),
    Info("ldx", "Indexed", 190, <<Number("Word16"), Register("y")>>),
    Info("ldy", "Immediate", 160, <<Numbers(<<"Word8", "Word16">>)>>),
    Info("ldy", "SingleArgument", 164, <<Number("Word8")>>),
    Info("ldy", "SingleArgument", 172, <<Number("Word16")>>),
    Info("ldy", "Indexed", 180, <<Number("Word8"), Register("x")>>),
    Info("ldy", "Indexed", 188, <<Number("Word16"), Register("x")>>),
    Info("lsr", "SingleArgument", 70, <<Number("Word8")>>),
    Info("lsr", "Implied", 74, <<>>),
    Info("lsr", "SingleArgument", 78, <<Number("Word16")>>),
    Info("lsr", "Indexed", 86, <<Number("Word8"), Register("x")>>),
    Info("lsr", "Indexed", 94, <<Number("Word16"), Register("x")>>),
    Info("mvn", "BlockMove", 84, <<Number("Word8"), Number("Word8")>>),
    Info("mvp", "BlockMove", 68, <<Number("Word8"), Number("Word8")>>),
    Info("nop", "Implied", 234, <<>>),
    Info("ora", "IndexedIndirect", 1, <<Number("Word8"), Register("x")>>),
    Info("ora", "Indexed", 3, <<Number("Word8"), Register("s")>>),
    Info("ora", "SingleArgument", 5, <<Number("Word8")>>),
    Info("ora", "IndirectLong", 7, <<Number("Word8")>>),
    Info("ora", "Immediate", 9, <<Numbers(<<"Word8", "Word16">>)>>),
    Info("ora", "SingleArgument", 13, <<Number("Word16")>>),
    Info("ora", "SingleArgument", 15, <<Number("Word24")>>),
    Info("ora", "IndirectIndexed", 17, <<Number("Word8"), Register("y")>>),
    Info("ora", "Indirect", 18, <<Number("Word8")>>),
    Info("ora", "StackRelativeIndirectIndexed", 19, <<Number("Word8"), Register("s"), Register("y")>>),
    Info("ora", "Indexed", 21, <<Number("Word8"), Register("x")>>),
    Info("ora", "IndirectIndexedLong", 23, <<Number("Word8"), Register("y")>>),
    Info("ora", "Indexed", 25, <<Number("Word16"), Register("y")>>),
    Info("ora", "Indexed", 29, <<Number("Word16"), Register("x")>>),
    Info("ora", "Indexed", 31, <<Number("Word24"), Register("x")>>),
    Info("pea", "SingleArgument", 244, <<Number("Word16")>>),
    Info("pei", "Indirect", 212, <<Number("Word8")>>),
    Info("per", "SingleArgument", 98, <<Number("Word16")>>),
    Info("pha", "Implied", 72, <<>>),
    Info("phb", "Implied", 139, <<>>),
    Info("phd", "Implied", 11, <<>>),
    Info("phk", "Implied", 75, <<>>),
    Info("php", "Implied", 8, <<>>),
    Info("phx", "Implied", 218, <<>>),
    Info("pha", "Implied", 90, <<>>),
    Info("pla", "Implied", 104, <<>>),
    Info("plb", "Implied", 171, <<>>),
    Info("pld", "Implied", 43, <<>>),
    Info("plp", "Implied", 40, <<>>),
    Info("plx", "Implied", 250, <<>>),
    Info("ply", "Implied", 122, <<>>),
    Info("rep", "Immediate", 194, <<Number("Word8")>>),
    Info("rol", "SingleArgument", 38, <<Number("Word8")>>),
    Info("rol", "Implied", 42, <<>>),
    Info("lsr", "SingleArgument", 46, <<Number("Word16")>>),
    Info("rol", "Indexed", 54, <<Number("Word8"), Register("x")>>),
    Info("rol", "Indexed", 62, <<Number("Word16"), Register("x")>>),
    Info("ror", "SingleArgument", 102, <<Number("Word8")>>),
    Info("ror", "Implied", 106, <<>>),
    Info("ror", "SingleArgument", 110, <<Number("Word16")>>),
    Info("ror", "Indexed", 118, <<Number("Word8"), Register("x")>>),
    Info("ror", "Indexed", 126, <<Number("Word16"), Register("x")>>),
    Info("rti", "Implied", 64, <<>>),
    Info("rtl", "Implied", 107, <<>>),
    Info("rts", "Implied", 96, <<>>),
    Info("sbc", "IndexedIndirect", 225, <<Number("Word8"), Register("x")>>),
    Info("sbc", "Indexed", 227, <<Number("Word8"), Register("s")>>),
    Info("sbc", "SingleArgument", 229, <<Number("Word8")>>),
    Info("sbc", "IndirectLong", 231, <<Number("Word8")>>),
    Info("sbc", "Immediate", 233, <<Numbers(<<"Word8", "Word16">>)>>),
    Info("sbc", "SingleArgument", 237, <<Number("Word16")>>),
    Info("sbc", "SingleArgument", 239, <<Number("Word24")>>),
    Info("sbc", "IndirectIndexed", 241, <<Number("Word8"), Register("y")>>),
    Info("sbc", "Indirect", 242, <<Number("Word8")>>),
    Info("sbc", "StackRelativeIndirectIndexed", 243, <<Number("Word8"), Register("s"), Register("y")>>),
    Info("sbc", "Indexed", 245, <<Number("Word8"), Register("x")>>),
    Info("sbc", "IndirectIndexedLong", 247, <<Number("Word8"), Register("y")>>),
    Info("sbc", "Indexed", 249, <<Number("Word16"), Register("y")>>),
    Info("sbc", "Indexed", 253, <<Number("Word16"), Register("x")>>),
    Info("sbc", "Indexed", 255, <<Number("Word24"), Register("x")>>),
    Info("sec", "Implied", 56, <<>>),
    Info("sed", "Implied", 248, <<>>),
    Info("sei", "Implied", 120, <<>>),
    Info("sep", "Immediate", 226, <<Number("Word8")>>),
    Info("sta", "IndexedIndirect", 129, <<Number("Word8"), Register("x")>>),
    Info("sta", "Indexed", 131, <<Number("Word8"), Register("s")>>),
    Info("sta", "SingleArgument", 133, <<Number("Word8")>>),
    Info("sta", "IndirectLong", 135, <<Number("Word8")>>),
    Info("sta", "SingleArgument", 141, <<Number("Word16")>>),
    Info("sta", "SingleArgument", 143, <<Number("Word24")>>),
    Info("sta", "IndirectIndexed", 145, <<Number("Word8"), Register("y")>>),
    Info("sta", "Indirect", 146, <<Number("Word8")>>),
    Info("sta", "StackRelativeIndirectIndexed", 147, <<Number("Word8"), Register("s"), Register("y")>>),
    Info("sta", "Indexed", 149, <<Number("Word8"), Register("x")>>),
    Info("sta", "IndirectIndexedLong", 151, <<Number("Word8"), Register("y")>>),
    Info("sta", "Indexed", 153, <<Number("Word16"), Register("y")>>),
    Info("sta", "Indexed", 157, <<Number("Word16"), Register("x")>>),
    Info("sta", "Indexed", 159, <<Number("Word24"), Register("x")>>),
    Info("stp", "Implied", 219, <<>>),
    Info("stx", "SingleArgument", 134, <<Number("Word8")>>),
    Info("stx", "SingleArgument", 142, <<Number("Word16")>>),
    Info("stx", "Indexed", 150, <<Number("Word8"), Register("y")>>),
    Info("sty", "SingleArgument", 132, <<Number("Word8")>>),
    Info("sty", "SingleArgument", 140, <<Number("Word16")>>),
    Info("sty", "Indexed", 148, <<Number("Word8"), Register("x")>>),
    Info("stz", "SingleArgument", 100, <<Number("Word8")>>),
    Info("stz", "Indexed", 116, <<Number("Word8"), Register("x")>>),
    Info("stz", "SingleArgument", 156, <<Number("Word16")>>),
    Info("stz", "Indexed", 158, <<Number("Word16"), Register("x")>>),
    Info("tax", "Implied", 170, <<>>),
    Info("tay", "Implied", 168, <<>>),
    Info("tcd", "Implied", 91, <<>>),
    Info("tcs", "Implied", 27, <<>>),
    Info("tdc", "Implied", 123, <<>>),
    Info("trb", "SingleArgument", 20, <<Number("Word8")>>),
    Info("trb", "SingleArgument", 28, <<Number("Word16")>>),
    Info("tsb", "SingleArgument", 4, <<Number("Word8")>>),
    Info("tsb", "SingleArgument", 12, <<Number("Word16")>>),
    Info("tsc", "Implied", 59, <<>>),
    Info("tsx", "Implied", 186, <<>>),
    Info("txa", "Implied", 138, <<>>),
    Info("txs", "Implied", 154, <<>>),
    Info("txa", "Implied", 155, <<>>),
    Info("tya", "Implied", 152, <<>>),
    Info("tyx", "Implied", 187, <<>>),
    Info("wai", "Implied", 203, <<>>),
    Info("wdm", "Implied", 66, <<>>),
    Info("xba", "Implied", 235, <<>>),
    Info("xce", "Implied", 251, <<>>)
  >> ]

(* ------------------------------------------------------------------ *)
(* parser.rs: the AST                                                   *)
(* ------------------------------------------------------------------ *)

\* ParseArgument: one record shape for the three variants.
NumberLiteral(number, size) ==
    [kind |-> "NumberLiteral", name |-> "", number |-> number, argument_size |-> size]

RegisterArg(name) ==
    [kind |-> "Register", name |-> name, number |-> 0, argument_size |-> "Word8"]

Identifier(name) ==
    [kind |-> "Identifier", name |-> name, number |-> 0, argument_size |-> "Word8"]

\* ParseNode / ParseExpression: one record shape for all variants.
\*   expr        the variant
\*   name        mnemonic, label name, snesmap mode or incbin file name
\*   args        the ParseArguments of an instruction
\*   number      origin address or incbin file size
\*   instruction table index of a FinalInstruction's InstructionInfo (0: none)
Instr(expr, opcode_name, args) ==
    [expr |-> expr, name |-> opcode_name, args |-> args, number |-> 0, instruction |-> 0]

Label(name) ==
    [expr |-> "Label", name |-> name, args |-> <<>>, number |-> 0, instruction |-> 0]

OriginStatement(number) ==
    [expr |-> "OriginStatement", name |-> "", args |-> <<>>, number |-> number, instruction |-> 0]

SnesMapStatement(mode) ==
    [expr |-> "SnesMapStatement", name |-> mode, args |-> <<>>, number |-> 0, instruction |-> 0]

IncBinStatement(filename, size) ==
    [expr |-> "IncBinStatement", name |-> filename, args |-> <<>>, number |-> size, instruction |-> 0]

\* FinalInstruction::{ImpliedInstruction, SingleArgumentInstruction, TwoArgumentInstruction}
FinalInstruction(variant, index, args) ==
    [expr |-> variant, name |-> "", args |-> args, number |-> 0, instruction |-> index]

FinalVariants ==
    {"FinalImpliedInstruction", "FinalSingleArgumentInstruction", "FinalTwoArgumentInstruction"}

(* ------------------------------------------------------------------ *)
(* symbol_table.rs                                                      *)
(* ------------------------------------------------------------------ *)

NewSymbolTable == [n \in {} |-> 0]

\* Mutant: a label that is already in the table keeps its first address.
add_label_keeping_first(table, label_name, address) ==
    IF label_name \in DOMAIN table THEN table
    ELSE [n \in (DOMAIN table) \cup {label_name} |->
            IF n = label_name THEN address ELSE table[n]]

\* SymbolTable::add_or_update_label: HashMap::insert replaces the address
\* of a label that is already in the table.
add_or_update_label(table, label_name, address) ==
    [n \in (DOMAIN table) \cup {label_name} |->
        IF n = label_name THEN address ELSE table[n]]

address_for(table, label_name) ==
    IF label_name \in DOMAIN table THEN table[label_name] ELSE 0

\* Mutant: the existence check always succeeds.
has_label_always(table, label_name) == TRUE

has_label(table, label_name) == label_name \in DOMAIN table

(* ------------------------------------------------------------------ *)
(* collect_label_pass.rs / resolve_label_pass.rs: operand size lookup   *)
(* ------------------------------------------------------------------ *)

NoSize == "None"

\* The inner loop over instruction.arguments: the first Number, or the
\* first element of the first non-empty Numbers.
RECURSIVE FirstNumberSize(_, _)
FirstNumberSize(arguments, k) ==
    IF k > Len(arguments) THEN NoSize
    ELSE IF arguments[k].kind = "Number" THEN arguments[k].sizes[1]
    ELSE IF arguments[k].kind = "Numbers" /\ Len(arguments[k].sizes) > 0
         THEN arguments[k].sizes[1]
    ELSE FirstNumberSize(arguments, k + 1)

\* The least element of a non-empty set of table indices.
FirstIndex(hits) == CHOOSE i \in hits : \A j \in hits : i <= j

\* The loop over the table returns at the first entry, in table order,
\* whose name and addressing match and whose arguments hold a size.
find_instruction_argument_size(opcode_name, possible_addressings) ==
    LET hits == {i \in 1..Len(system.instructions) :
                    /\ system.instructions[i].name = opcode_name
                    /\ system.instructions[i].addressing \in possible_addressings
                    /\ FirstNumberSize(system.instructions[i].arguments, 1) # NoSize}
    IN IF hits = {} THEN NoSize
       ELSE FirstNumberSize(system.instructions[FirstIndex(hits)].arguments, 1)

\* `match find_instruction_argument_size(..) { Some(size) => size, None => system.label_size }`
SizeOrLabelSize(opcode_name, possible_addressings) ==
    LET size == find_instruction_argument_size(opcode_name, possible_addressings)
    IN IF size = NoSize THEN system.label_size ELSE size

is_branching_instruction(opcode_name) ==
    \E i \in 1..Len(system.instructions) :
        system.instructions[i].name = opcode_name /\ system.instructions[i].addressing = "Relative"

(* ------------------------------------------------------------------ *)
(* collect_label_pass.rs: pass 1                                        *)
(* ------------------------------------------------------------------ *)

InstructionVariants ==
    {"ImpliedInstruction", "ImmediateInstruction", "SingleArgumentInstruction",
     "IndexedInstruction", "IndirectInstruction", "IndirectLongInstruction",
     "IndexedIndirectInstruction", "IndirectIndexedInstruction",
     "IndirectIndexedLongInstruction", "BlockMoveInstruction",
     "StackRelativeIndirectIndexedInstruction"}

\* The addressing modes pass 1 hands to find_instruction_argument_size for
\* an Identifier in each argument position of each arm.
CollectAddressings(expr) ==
    CASE expr = "SingleArgumentInstruction" -> << {"SingleArgument", "Relative"} >>
      [] expr = "IndexedInstruction" -> << {"Indexed"}, {"Indexed"} >>
      [] expr = "IndirectInstruction" -> << {"Indirect"} >>
      [] expr = "IndirectLongInstruction" -> << {"Indirect"} >>
      [] expr = "IndexedIndirectInstruction" -> << {"IndexedIndirect"}, {"IndexedIndirect"} >>
      [] expr = "IndirectIndexedInstruction" -> << {"IndirectIndexed"}, {"IndirectIndexed"} >>
      [] expr = "IndirectIndexedLongInstruction" ->
            << {"IndirectIndexedLong"}, {"IndirectIndexedLong"} >>
      [] expr = "BlockMoveInstruction" -> << {"BlockMove"}, {"BlockMove"} >>
      [] expr = "StackRelativeIndirectIndexedInstruction" ->
            << {"StackRelativeIndirectIndexed"}, {"BlockMove"},
               {"StackRelativeIndirectIndexed"} >>
      [] OTHER -> << >>

\* Mutant: an Identifier adds the bytes of label_size in every arm.
CollectArgumentBytesOfLabelSize(node, k) ==
    LET argument == node.args[k]
    IN CASE argument.kind = "NumberLiteral" ->
                argument_size_to_byte_size(argument.argument_size)
         [] argument.kind = "Identifier" ->
                argument_size_to_byte_size(system.label_size)
         [] OTHER -> 0

\* Bytes one argument adds to current_address in pass 1.
CollectArgumentBytes(node, k) ==
    LET argument == node.args[k]
    IN CASE argument.kind = "NumberLiteral" ->
                argument_size_to_byte_size(argument.argument_size)
         [] argument.kind = "Identifier" ->
                IF node.expr = "ImmediateInstruction"
                THEN argument_size_to_byte_size(system.label_size)
                ELSE argument_size_to_byte_size(
                        SizeOrLabelSize(node.name, CollectAddressings(node.expr)[k]))
         [] OTHER -> 0

RECURSIVE CollectArgumentsFrom(_, _, _)
CollectArgumentsFrom(node, k, address) ==
    IF k > Len(node.args) THEN address
    ELSE CollectArgumentsFrom(node, k + 1, AddU32(address, CollectArgumentBytes(node, k)))

\* One iteration of the loop of CollectLabelPass::do_pass: the new
\* current_address, the nodes pushed to new_tree and the new symbol table.
CollectNode(node, address, table) ==
    CASE node.expr \in InstructionVariants ->
            [address |-> CollectArgumentsFrom(node, 1, AddU32(address, 1)),
             nodes |-> <<node>>, table |-> table]
      [] node.expr = "OriginStatement" ->
            [address |-> node.number, nodes |-> <<node>>, table |-> table]
      [] node.expr = "IncBinStatement" ->
            [address |-> AddU32(address, node.number),
             nodes |-> <<node>>, table |-> table]
      [] node.expr = "Label" ->
            [address |-> address, nodes |-> << >>,
             table |-> add_or_update_label(table, node.name, address)]
      [] OTHER ->
            [address |-> address, nodes |-> <<node>>, table |-> table]

(* ------------------------------------------------------------------ *)
(* resolve_label_pass.rs: pass 2                                        *)
(* ------------------------------------------------------------------ *)

LabelNotFound == "Label not found."

BranchTooFar == "Branch label is too far away."

\* The addressing modes pass 2 hands to find_instruction_argument_size for
\* an Identifier first argument in each arm (BlockMove has no such code).
ResolveAddressings(expr) ==
    CASE expr = "ImmediateInstruction" -> {"Immediate"}
      [] expr = "SingleArgumentInstruction" -> {"SingleArgument", "Relative"}
      [] expr = "IndexedInstruction" -> {"Indexed"}
      [] expr = "IndirectInstruction" -> {"Indirect"}
      [] expr = "IndirectLongInstruction" -> {"IndirectLong"}
      [] expr = "IndexedIndirectInstruction" -> {"IndexedIndirect"}
      [] expr = "IndirectIndexedInstruction" -> {"IndirectIndexed"}
      [] expr = "IndirectIndexedLongInstruction" -> {"IndirectIndexedLong"}
      [] expr = "StackRelativeIndirectIndexedInstruction" -> {"StackRelativeIndirectIndexed"}
      [] OTHER -> {}

\* Mutant: the range check forgets the lower bound.
BranchOutOfRangeAbove(temp_address, argument_size) ==
    CASE argument_size = "Word8" -> temp_address > 127
      [] argument_size = "Word16" -> temp_address > 32767
      [] OTHER -> FALSE

\* `temp_address > max || temp_address < min` of the two branch arms.
BranchOutOfRange(temp_address, argument_size) ==
    CASE argument_size = "Word8" -> temp_address > 127 \/ temp_address < -128
      [] argument_size = "Word16" -> temp_address > 32767 \/ temp_address < -32768
      [] OTHER -> FALSE

\* `(temp_address as u32) & 0xFF` and `& 0xFFFF`: the cast of the i64 to
\* u32 keeps it modulo 2^32, of which 2^8 and 2^16 are divisors.
BranchOperand(temp_address, argument_size) ==
    CASE argument_size = "Word8" -> temp_address % 256
      [] argument_size = "Word16" -> temp_address % 65536
      [] OTHER -> 0

\* The operand of a SingleArgumentInstruction whose identifier is defined,
\* the errors added and the names address_for is called with;
\* current_address already counts the opcode byte.
ResolveSingleOperand(opcode_name, identifier, argument_size, current_address, table) ==
    IF is_branching_instruction(opcode_name)
    THEN IF argument_size \in {"Word8", "Word16"}
         THEN LET temp_address ==
                      address_for(table, identifier)
                      - AddU32(current_address, argument_size_to_byte_size(argument_size))
              IN IF BranchOutOfRange(temp_address, argument_size)
                 THEN [number |-> 0, errors |-> <<BranchTooFar>>,
                       lookups |-> <<identifier>>]
                 ELSE [number |-> BranchOperand(temp_address, argument_size),
                       errors |-> << >>, lookups |-> <<identifier>>]
         ELSE [number |-> 0, errors |-> << >>, lookups |-> << >>]
    ELSE [number |-> address_for(table, identifier), errors |-> << >>,
          lookups |-> <<identifier>>]

\* `match argument { Identifier => .., NumberLiteral => .., _ => .. }` of the
\* arms that resolve their first argument. current_address is the address
\* the arm has reached before the match, pushed the nodes it has already
\* pushed to new_tree.
ResolveFirstArgument(node, current_address, table, pushed) ==
    LET argument == node.args[1]
    IN CASE argument.kind = "Identifier" ->
            IF has_label(table, argument.name)
            THEN LET argument_size ==
                         SizeOrLabelSize(node.name, ResolveAddressings(node.expr))
                     operand ==
                         IF node.expr = "SingleArgumentInstruction"
                         THEN ResolveSingleOperand(node.name, argument.name,
                                                   argument_size, current_address, table)
                         ELSE [number |-> address_for(table, argument.name),
                               errors |-> << >>, lookups |-> <<argument.name>>]
                     number == NumberLiteral(operand.number, argument_size)
                 IN [address |-> AddU32(current_address,
                                        argument_size_to_byte_size(argument_size)),
                     nodes |-> Append(pushed, [node EXCEPT !.args[1] = number]),
                     errors |-> operand.errors,
                     lookups |-> operand.lookups]
            ELSE [address |-> current_address,
                  nodes |-> Append(pushed, node),
                  errors |-> <<LabelNotFound>>,
                  lookups |-> << >>]
         [] argument.kind = "NumberLiteral" ->
            [address |-> AddU32(current_address,
                                argument_size_to_byte_size(argument.argument_size)),
             nodes |-> Append(pushed, node),
             errors |-> << >>, lookups |-> << >>]
         [] OTHER ->
            [address |-> current_address, nodes |-> Append(pushed, node),
             errors |-> << >>, lookups |-> << >>]

\* Bytes the BlockMove arm adds for one argument (NumberLiteral only).
BlockMoveArgumentBytes(argument) ==
    IF argument.kind = "NumberLiteral"
    THEN argument_size_to_byte_size(argument.argument_size)
    ELSE 0

\* One iteration of the loop of ResolveLabelPass::do_pass: the new
\* current_address, the nodes pushed to new_tree, the error messages added
\* and the names address_for was called with.
ResolveNode(node, current_address, table) ==
    CASE node.expr = "ImpliedInstruction" ->
            [address |-> AddU32(current_address, 1), nodes |-> <<node>>,
             errors |-> << >>, lookups |-> << >>]
      [] node.expr \in {"ImmediateInstruction", "SingleArgumentInstruction",
                        "IndexedInstruction", "IndexedIndirectInstruction",
                        "IndirectIndexedInstruction", "IndirectIndexedLongInstruction",
                        "StackRelativeIndirectIndexedInstruction"} ->
            ResolveFirstArgument(node, AddU32(current_address, 1), table, << >>)
      [] node.expr = "IndirectInstruction" ->
            ResolveFirstArgument(node, AddU32(current_address, 1), table, <<node>>)
      [] node.expr = "IndirectLongInstruction" ->
            ResolveFirstArgument(node, current_address, table, <<node>>)
      [] node.expr = "BlockMoveInstruction" ->
            [address |-> AddU32(AddU32(AddU32(current_address, 1),
                                       BlockMoveArgumentBytes(node.args[1])),
                                BlockMoveArgumentBytes(node.args[2])),
             nodes |-> <<node>>, errors |-> << >>, lookups |-> << >>]
      [] node.expr = "OriginStatement" ->
            [address |-> node.number, nodes |-> <<node>>,
             errors |-> << >>, lookups |-> << >>]
      [] node.expr = "IncBinStatement" ->
            [address |-> AddU32(current_address, node.number), nodes |-> <<node>>,
             errors |-> << >>, lookups |-> << >>]
      [] OTHER ->
            [address |-> current_address, nodes |-> <<node>>,
             errors |-> << >>, lookups |-> << >>]

(* ------------------------------------------------------------------ *)
(* instruction_statement_pass.rs: pass 3                                *)
(* ------------------------------------------------------------------ *)

\* The loop `for i in 0..argument_size` with its breaks: TRUE iff
\* same_arguments is still true after it.
RECURSIVE SameArgumentsFrom(_, _, _)
SameArgumentsFrom(arguments, possible_arguments, i) ==
    IF i > Len(arguments) THEN TRUE
    ELSE LET current_argument == arguments[i]
             possible == possible_arguments[i]
         IN CASE current_argument.kind = "Number" ->
                    IF current_argument # possible THEN FALSE
                    ELSE SameArgumentsFrom(arguments, possible_arguments, i + 1)
              [] current_argument.kind = "Numbers" ->
                    IF \E k \in 1..Len(current_argument.sizes) :
                            /\ possible.kind = "Number"
                            /\ current_argument.sizes[k] = possible.sizes[1]
                    THEN SameArgumentsFrom(arguments, possible_arguments, i + 1)
                    ELSE FALSE
              [] current_argument.kind = "Register" ->
                    IF possible.kind = "NotStaticRegister"
                       /\ current_argument.register = possible.register
                    THEN SameArgumentsFrom(arguments, possible_arguments, i + 1)
                    ELSE FALSE
              [] OTHER -> SameArgumentsFrom(arguments, possible_arguments, i + 1)

\* Whether the body of the loop over the table returns entry i.
SuitableEntry(i, opcode_name, possible_addressings, possible_arguments) ==
    /\ system.instructions[i].name = opcode_name
    /\ system.instructions[i].addressing \in possible_addressings
    /\ Len(system.instructions[i].arguments) = Len(possible_arguments)
    /\ SameArgumentsFrom(system.instructions[i].arguments, possible_arguments, 1)

\* Mutant: the scan keeps the last entry its body accepts.
find_last_suitable_instruction(opcode_name, possible_addressings, possible_arguments) ==
    LET hits == {i \in 1..Len(system.instructions) :
                    SuitableEntry(i, opcode_name, possible_addressings,
                                  possible_arguments)}
    IN IF hits = {} THEN 0 ELSE CHOOSE i \in hits : \A j \in hits : j <= i

\* The loop over the table returns at the first entry, in table order,
\* that its body accepts; 0 stands for None.
find_suitable_instruction(opcode_name, possible_addressings, possible_arguments) ==
    LET hits == {i \in 1..Len(system.instructions) :
                    SuitableEntry(i, opcode_name, possible_addressings,
                                  possible_arguments)}
    IN IF hits = {} THEN 0 ELSE FirstIndex(hits)

\* add_to_argument_list / add_to_argument_list_capture_register: what one
\* ParseArgument appends to the query.
QueryArgument(argument) ==
    CASE argument.kind = "NumberLiteral" -> << Number(argument.argument_size) >>
      [] argument.kind = "Register" -> << NotStaticRegister(argument.name) >>
      [] OTHER -> << >>

RECURSIVE QueryArgumentsFrom(_, _)
QueryArgumentsFrom(args, k) ==
    IF k > Len(args) THEN << >>
    ELSE QueryArgument(args[k]) \o QueryArgumentsFrom(args, k + 1)

\* The addressing family each arm of pass 3 queries.
StatementAddressings(expr) ==
    CASE expr = "ImpliedInstruction" -> {"Implied"}
      [] expr = "ImmediateInstruction" -> {"Immediate"}
      [] expr = "SingleArgumentInstruction" -> {"SingleArgument", "Relative"}
      [] expr = "IndexedInstruction" -> {"Indexed"}
      [] expr = "IndirectInstruction" -> {"Indirect"}
      [] expr = "IndirectLongInstruction" -> {"IndirectLong"}
      [] expr = "IndexedIndirectInstruction" -> {"IndexedIndirect"}
      [] expr = "IndirectIndexedInstruction" -> {"IndirectIndexed"}
      [] expr = "IndirectIndexedLongInstruction" -> {"IndirectIndexedLong"}
      [] expr = "BlockMoveInstruction" -> {"BlockMove"}
      [] expr = "StackRelativeIndirectIndexedInstruction" -> {"StackRelativeIndirectIndexed"}
      [] OTHER -> {}

NotSupported == "opcode does not support this addressing mode."

RegisterNotSupported == "addressing mode does not support register argument."

\* Mutant: the variant follows the number of arguments of the node.
StatementFinalByArguments(node, instruction) ==
    CASE Len(node.args) = 0 ->
            FinalInstruction("FinalImpliedInstruction", instruction, << >>)
      [] Len(node.args) = 1 ->
            FinalInstruction("FinalSingleArgumentInstruction", instruction,
                             <<node.args[1]>>)
      [] OTHER ->
            FinalInstruction("FinalTwoArgumentInstruction", instruction,
                             <<node.args[1], node.args[2]>>)

\* The FinalInstruction an arm builds from the matched entry.
StatementFinal(node, instruction) ==
    CASE node.expr = "ImpliedInstruction" ->
            FinalInstruction("FinalImpliedInstruction", instruction, << >>)
      [] node.expr = "BlockMoveInstruction" ->
            FinalInstruction("FinalTwoArgumentInstruction", instruction,
                             <<node.args[1], node.args[2]>>)
      [] OTHER ->
            FinalInstruction("FinalSingleArgumentInstruction", instruction,
                             <<node.args[1]>>)

\* One iteration of the loop of InstructionToStatementPass::do_pass: the
\* nodes pushed to new_tree and the error messages added.
StatementNode(node) ==
    IF node.expr \notin InstructionVariants
    THEN [nodes |-> <<node>>, errors |-> << >>]
    ELSE IF node.expr \in {"ImmediateInstruction", "SingleArgumentInstruction",
                           "IndirectInstruction", "IndirectLongInstruction"}
            /\ node.args[1].kind = "Register"
    THEN [nodes |-> <<node>>, errors |-> <<RegisterNotSupported>>]
    ELSE IF node.expr \in {"ImmediateInstruction", "SingleArgumentInstruction",
                           "IndirectInstruction", "IndirectLongInstruction"}
            /\ node.args[1].kind = "Identifier"
    THEN [nodes |-> <<node>>, errors |-> << >>]
    ELSE LET instruction ==
                 find_suitable_instruction(node.name, StatementAddressings(node.expr),
                                           QueryArgumentsFrom(node.args, 1))
         IN IF instruction # 0
            THEN [nodes |-> << StatementFinal(node, instruction) >>, errors |-> << >>]
            ELSE [nodes |-> <<node>>, errors |-> <<NotSupported>>]

(* ------------------------------------------------------------------ *)
(* output_writer.rs                                                     *)
(* ------------------------------------------------------------------ *)

\* Bitwise operations on u32 values, bit by bit.
RECURSIVE BitAnd(_, _)
BitAnd(a, b) ==
    IF a = 0 \/ b = 0 THEN 0
    ELSE (a % 2) * (b % 2) + 2 * BitAnd(a \div 2, b \div 2)

RECURSIVE BitOr(_, _)
BitOr(a, b) ==
    IF a = 0 THEN b
    ELSE IF b = 0 THEN a
    ELSE (IF a % 2 = 1 \/ b % 2 = 1 THEN 1 ELSE 0) + 2 * BitOr(a \div 2, b \div 2)

RECURSIVE ShiftRight(_, _)
ShiftRight(a, n) == IF n = 0 THEN a ELSE ShiftRight(a \div 2, n - 1)

map_default(value) == value

\* Mutant: the bank bits are masked but not shifted down.
map_snes_lorom_unshifted(value) ==
    BitOr(BitAnd(value, 8323072), BitAnd(value, 32767))

\* ((value & 0x7F0000) >> 1) | (value & 0x7FFF)
map_snes_lorom(value) ==
    BitOr(ShiftRight(BitAnd(value, 8323072), 1), BitAnd(value, 32767))

\* value & 0x3FFFFF
map_snes_hirom(value) == BitAnd(value, 4194303)

\* (self.map_function)(value); the function pointer is held by its name.
ApplyMap(map_function, value) ==
    CASE map_function = "map_snes_lorom" -> map_snes_lorom(value)
      [] map_function = "map_snes_hirom" -> map_snes_hirom(value)
      [] OTHER -> map_default(value)

\* The bytes of n in little-endian order, nbytes of them.
RECURSIVE LittleEndianBytes(_, _)
LittleEndianBytes(n, nbytes) ==
    IF nbytes = 0 THEN << >>
    ELSE <<n % 256>> \o LittleEndianBytes(n \div 256, nbytes - 1)

RECURSIVE Reverse(_)
Reverse(s) == IF s = << >> THEN << >> ELSE Append(Reverse(Tail(s)), Head(s))

\* write_u24 (byteorder) asserts that the value fits three bytes and
\* panics otherwise, before any byte of it is written; write_u8, write_u16
\* and write_u32 take a value of their own width and cannot fail so.
write_number_literal_panics(number) ==
    number.argument_size = "Word24" /\ number.number >= 16777216

\* write_number_literal: the bytes it appends when it does not panic.
\* `as u8` and `as u16` truncate.
write_number_literal(number) ==
    LET nbytes == argument_size_to_byte_size(number.argument_size)
        value == CASE number.argument_size = "Word8" -> number.number % 256
                   [] number.argument_size = "Word16" -> number.number % 65536
                   [] OTHER -> number.number
        little == LittleEndianBytes(value, nbytes)
    IN IF system.is_big_endian THEN Reverse(little) ELSE little

\* The bytes one argument of a FinalInstruction contributes.
FinalArgumentBytes(argument) ==
    IF argument.kind = "NumberLiteral" THEN write_number_literal(argument) ELSE << >>

FinalArgumentPanics(argument) ==
    argument.kind = "NumberLiteral" /\ write_number_literal_panics(argument)

\* The bytes of the arguments from the k-th on, up to the first that panics.
RECURSIVE FinalArgumentsBytesFrom(_, _)
FinalArgumentsBytesFrom(args, k) ==
    IF k > Len(args) \/ FinalArgumentPanics(args[k]) THEN << >>
    ELSE FinalArgumentBytes(args[k]) \o FinalArgumentsBytesFrom(args, k + 1)

\* Whether handle_final_instruction panics on one of the literals.
handle_final_instruction_panics(node) ==
    \E k \in 1..Len(node.args) : FinalArgumentPanics(node.args[k])

\* handle_final_instruction: the opcode byte, then the literals in order.
handle_final_instruction(node) ==
    <<system.instructions[node.instruction].opcode>> \o FinalArgumentsBytesFrom(node.args, 1)

\* The files an incbin statement can name, with their contents.
IncBinFiles == [F |-> <<222, 173, 190, 239>>]

\* do_incbin: the whole file, verbatim.
do_incbin(filename) == IncBinFiles[filename]

\* The bytes one node makes OutputWriter::write append at the write position.
WriteBytes(node) ==
    CASE node.expr \in FinalVariants -> handle_final_instruction(node)
      [] node.expr = "IncBinStatement" -> do_incbin(node.name)
      [] OTHER -> << >>

\* Mutant: a write leaves the offsets that already hold data as they are.
WriteAtKeepingOld(data, pos, bytes) ==
    [o \in (DOMAIN data) \cup (pos .. (pos + Len(bytes) - 1)) |->
        IF o \in DOMAIN data THEN data[o] ELSE bytes[o - pos + 1]]

\* The file after `bytes` are written at offset `pos`. A file is the
\* function from the offsets that were written to their bytes; an offset
\* below the end of the file that was never written (a hole left by a
\* seek) is not in its domain.
WriteAt(data, pos, bytes) ==
    [o \in (DOMAIN data) \cup (pos .. (pos + Len(bytes) - 1)) |->
        IF o >= pos /\ o < pos + Len(bytes) THEN bytes[o - pos + 1] ELSE data[o]]

EmptyFile == [o \in {} |-> 0]

(* ------------------------------------------------------------------ *)
(* State                                                                *)
(* ------------------------------------------------------------------ *)

VARIABLES
    pc,                  \* position of main: the stage whose loop is running
    source,              \* the statements of the input file, in order
    idx,                 \* 1-based index of the next item of the running loop
    parse_tree,          \* result of Parser::parse_tree
    collect_label_tree,  \* result of pass 1
    resolve_label_tree,  \* result of pass 2
    instruction_tree,    \* result of pass 3
    symbol_table,        \* SymbolTable.label_map
    current_address,     \* the local of the running pass
    error_messages,      \* error_messages of the parser and of each pass
    exit_status,         \* -1 while running, else the process exit status
    file_exists,         \* whether the output path names a file
    file_data,           \* the bytes of that file, by offset
    output_open,         \* whether the OutputWriter has been constructed
    output_pos,          \* seek position of OutputWriter.output
    map_function,        \* OutputWriter.map_function
    initial_exists,      \* history: file_exists before the run
    initial_data,        \* history: file_data before the run
    stages_run,          \* history: the stages started, in order
    pass1_address,       \* history: current_address when pass 1 reached parse_tree[i]
    pass2_address,       \* history: current_address when pass 2 reached collect_label_tree[i]
    collect_src,         \* history: parse_tree index each pass-1 output node comes from
    resolve_src,         \* history: parse_tree index each pass-2 output node comes from
    statement_src,       \* history: parse_tree index each pass-3 output node comes from
    lookups,             \* history: the names pass 2 called address_for with
    write_log,           \* history: per node written, [src, before, after, bytes]
    query,               \* find_suitable_instruction: the arguments of a call
    query_result         \* find_suitable_instruction: its result (-1: not called yet)

\* OutputWriter::write_number_literal on its own
VARIABLES
    literal,             \* the NumberLiteral it is called with
    written              \* its outcome: the bytes it wrote, whether it panicked

number_vars == <<literal, written>>

NoLiteral == [number |-> 0, argument_size |-> "Word8"]

NotWritten == [called |-> FALSE, panicked |-> FALSE, bytes |-> << >>]

NumberIdle == literal = NoLiteral /\ written = NotWritten

\* A Lexer on its own (lexer.rs 45-53), and what its callers have seen
VARIABLES
    file_content,        \* Vec<char>, as a sequence of one-character strings
    current_char,        \* offset of the next character, from 0
    line,
    column,
    line_start,
    lexer_base,          \* the four fields after from_file or the last reset
    returned,            \* the tokens get_next_token returned since then
    last_call            \* the last call: its kind, the fields before it, its token

lexer_fields == <<current_char, line, column, line_start>>

lexer_vars == <<file_content, lexer_fields, lexer_base, returned, last_call>>

\* The four mutable fields as one value.
LexerFields(offset, l, c, start) ==
    [current_char |-> offset, line |-> l, column |-> c, line_start |-> start]

\* Lexer::from_file: the fields of a new lexer.
NewLexer == LexerFields(0, 1, 1, 0)

\* No token (before any call, and for a call that returns none).
NoToken ==
    [ttype |-> "None", text |-> "", number |-> 0, argument_size |-> "Word8",
     line |-> 0, start_column |-> 0, end_column |-> 0, context_start |-> 0]

NoCall == [kind |-> "none", times |-> 0, before |-> NewLexer, start |-> 0, token |-> NoToken]

LexerIdle ==
    /\ file_content = << >>
    /\ current_char = 0 /\ line = 1 /\ column = 1 /\ line_start = 0
    /\ lexer_base = NewLexer
    /\ returned = << >>
    /\ last_call = NoCall

\* A Parser on the files of a directory (parser.rs 64-69); its
\* error_messages are error_messages.parse and the list parse_tree builds
\* is parse_tree.
VARIABLES
    files,               \* the content of each file, by name
    sources,             \* the lines each file was made of, by name
    lexers,              \* Vec<Lexer>
    current_lexer,       \* i32
    lexer_results,       \* what the Lexer of each file returns, by its fields
    include_stack,       \* the include directives whose file is not finished
    last_parse           \* the last call of parse by parse_tree, and whether the
                         \* calls made so far are odd in number

parser_vars ==
    <<files, sources, lexers, current_lexer, lexer_results, include_stack, last_parse>>

NoParse == [kind |-> "none", lexer |-> -1, open |-> -1, odd |-> FALSE]

\* Parser::new
ParserIdle ==
    /\ files = << >> /\ sources = << >>
    /\ lexers = << >> /\ current_lexer = -1
    /\ lexer_results = << >>
    /\ include_stack = << >>
    /\ last_parse = NoParse

\* The variables of the parts of the program that are run on their own.
aux_vars == <<number_vars, lexer_vars, parser_vars>>

AuxIdle == NumberIdle /\ LexerIdle /\ ParserIdle

\* The variables of a run of main, but for system and pc.
pipeline_vars ==
    <<source, idx, parse_tree, collect_label_tree, resolve_label_tree,
      instruction_tree, symbol_table, current_address, error_messages, exit_status,
      file_exists, file_data, output_open, output_pos, map_function,
      initial_exists, initial_data, stages_run, pass1_address, pass2_address,
      collect_src, resolve_src, statement_src, lookups, write_log,
      query, query_result>>

vars ==
    <<system, pc, source, idx, parse_tree, collect_label_tree, resolve_label_tree,
      instruction_tree, symbol_table, current_address, error_messages, exit_status,
      file_exists, file_data, output_open, output_pos, map_function,
      initial_exists, initial_data, stages_run, pass1_address, pass2_address,
      collect_src, resolve_src, statement_src, lookups, write_log,
      query, query_result, aux_vars>>

\* ErrorMessage; every add_error_message of the sources sets severity Error.
ErrorMessage(message) == [message |-> message, severity |-> "Error"]

RECURSIVE ErrorMessages(_)
ErrorMessages(messages) ==
    IF messages = << >> THEN << >>
    ELSE <<ErrorMessage(Head(messages))>> \o ErrorMessages(Tail(messages))

\* A statement of the source that the parser rejects (a stray token):
\* parse() records "unexpected token found." and returns ParseResult::Error.
Malformed ==
    [expr |-> "Malformed", name |-> "", args |-> <<>>, number |-> 0, instruction |-> 0]

UnexpectedToken == "unexpected token found."

Stages == <<"parse", "pass1", "pass2", "pass3", "write">>

NoQuery == [opcode_name |-> "", possible_addressings |-> {}, possible_arguments |-> << >>]

\* The state main starts the parser in, for a source and an output path.
InitPipeline(statements, exists, data) ==
    /\ system = SNES_CPU
    /\ pc = "parse"
    /\ source = statements
    /\ idx = 1
    /\ parse_tree = << >>
    /\ collect_label_tree = << >>
    /\ resolve_label_tree = << >>
    /\ instruction_tree = << >>
    /\ symbol_table = NewSymbolTable
    /\ current_address = 0
    /\ error_messages = [parse |-> << >>, pass1 |-> << >>, pass2 |-> << >>, pass3 |-> << >>]
    /\ exit_status = -1
    /\ file_exists = exists
    /\ file_data = data
    /\ output_open = FALSE
    /\ output_pos = 0
    /\ map_function = "map_default"
    /\ initial_exists = exists
    /\ initial_data = data
    /\ stages_run = <<"parse">>
    /\ pass1_address = << >>
    /\ pass2_address = << >>
    /\ collect_src = << >>
    /\ resolve_src = << >>
    /\ statement_src = << >>
    /\ lookups = << >>
    /\ write_log = << >>
    /\ query = NoQuery
    /\ query_result = -1
    /\ AuxIdle

(* ------------------------------------------------------------------ *)
(* main.rs: the driver, one action per loop iteration and per stage     *)
(* ------------------------------------------------------------------ *)

\* has_errors(): !error_messages.is_empty()
has_errors(messages) == messages # << >>

\* Mutant: process_errors looks for the wrong severity.
process_errors_exits_on_warning(messages) ==
    \E i \in 1..Len(messages) : messages[i].severity = "Warning"

\* process_errors: exits with status 1 iff a message has severity Error.
process_errors_exits(messages) ==
    \E i \in 1..Len(messages) : messages[i].severity = "Error"

\* The input of the loop of each stage.
StageInput(stage) ==
    CASE stage = "parse" -> source
      [] stage = "pass1" -> parse_tree
      [] stage = "pass2" -> collect_label_tree
      [] stage = "pass3" -> resolve_label_tree
      [] stage = "write" -> instruction_tree
      [] OTHER -> << >>

LoopDone(stage) == pc = stage /\ idx > Len(StageInput(stage))

\* `if x.has_errors() { process_errors(..) }` after a stage, when it exits.
ExitsAfter(stage) ==
    /\ has_errors(error_messages[stage])
    /\ process_errors_exits(error_messages[stage])

\* Parser::parse_tree, one statement: push the node, or record the error.
ParseStatement ==
    /\ pc = "parse"
    /\ idx <= Len(source)
    /\ IF source[idx].expr = "Malformed"
       THEN /\ error_messages' =
                  [error_messages EXCEPT !.parse = Append(@, ErrorMessage(UnexpectedToken))]
            /\ UNCHANGED parse_tree
       ELSE /\ parse_tree' = Append(parse_tree, source[idx])
            /\ UNCHANGED error_messages
    /\ idx' = idx + 1
    /\ UNCHANGED <<system, pc, source, collect_label_tree, resolve_label_tree, instruction_tree,
                   symbol_table, current_address, exit_status, file_exists, file_data,
                   output_open, output_pos, map_function, initial_exists, initial_data,
                   stages_run, pass1_address, pass2_address, collect_src, resolve_src,
                   statement_src, lookups, write_log, query, query_result, aux_vars>>

\* process_errors reaching std::process::exit(1) after any stage.
ProcessErrors ==
    /\ \E stage \in {"parse", "pass1", "pass2", "pass3"} :
          LoopDone(stage) /\ ExitsAfter(stage)
    /\ pc' = "exit"
    /\ exit_status' = 1
    /\ UNCHANGED <<system, source, idx, parse_tree, collect_label_tree, resolve_label_tree,
                   instruction_tree, symbol_table, current_address, error_messages,
                   file_exists, file_data, output_open, output_pos, map_function,
                   initial_exists, initial_data, stages_run, pass1_address,
                   pass2_address, collect_src, resolve_src, statement_src, lookups,
                   write_log, query, query_result, aux_vars>>

\* SymbolTable::new, CollectLabelPass::new and the entry of its do_pass.
StartPass1 ==
    /\ LoopDone("parse")
    /\ ~ExitsAfter("parse")
    /\ pc' = "pass1"
    /\ idx' = 1
    /\ current_address' = 0
    /\ symbol_table' = NewSymbolTable
    /\ stages_run' = Append(stages_run, "pass1")
    /\ UNCHANGED <<system, source, parse_tree, collect_label_tree, resolve_label_tree,
                   instruction_tree, error_messages, exit_status, file_exists, file_data,
                   output_open, output_pos, map_function, initial_exists, initial_data,
                   pass1_address, pass2_address, collect_src, resolve_src,
                   statement_src, lookups, write_log, query, query_result, aux_vars>>

RECURSIVE Repeat(_, _)
Repeat(x, n) == IF n = 0 THEN << >> ELSE <<x>> \o Repeat(x, n - 1)

\* CollectLabelPass::do_pass, one iteration of its loop.
CollectStep ==
    /\ pc = "pass1"
    /\ idx <= Len(parse_tree)
    /\ LET r == CollectNode(parse_tree[idx], current_address, symbol_table)
       IN /\ current_address' = r.address
          /\ symbol_table' = r.table
          /\ collect_label_tree' = collect_label_tree \o r.nodes
          /\ collect_src' = collect_src \o Repeat(idx, Len(r.nodes))
    /\ pass1_address' = Append(pass1_address, current_address)
    /\ idx' = idx + 1
    /\ UNCHANGED <<system, pc, source, parse_tree, resolve_label_tree, instruction_tree,
                   error_messages, exit_status, file_exists, file_data, output_open,
                   output_pos, map_function, initial_exists, initial_data, stages_run,
                   pass2_address, resolve_src, statement_src, lookups, write_log,
                   query, query_result, aux_vars>>

\* Mutant: pass 2 starts from a table of its own.
StartPass2WithNewTable ==
    /\ LoopDone("pass1")
    /\ ~ExitsAfter("pass1")
    /\ pc' = "pass2"
    /\ idx' = 1
    /\ current_address' = 0
    /\ symbol_table' = NewSymbolTable
    /\ stages_run' = Append(stages_run, "pass2")
    /\ UNCHANGED <<system, source, parse_tree, collect_label_tree, resolve_label_tree,
                   instruction_tree, error_messages, exit_status,
                   file_exists, file_data, output_open, output_pos, map_function,
                   initial_exists, initial_data, pass1_address, pass2_address,
                   collect_src, resolve_src, statement_src, lookups, write_log,
                   query, query_result, aux_vars>>

\* ResolveLabelPass::new and the entry of its do_pass.
StartPass2 ==
    /\ LoopDone("pass1")
    /\ ~ExitsAfter("pass1")
    /\ pc' = "pass2"
    /\ idx' = 1
    /\ current_address' = 0
    /\ stages_run' = Append(stages_run, "pass2")
    /\ UNCHANGED <<system, source, parse_tree, collect_label_tree, resolve_label_tree,
                   instruction_tree, symbol_table, error_messages, exit_status,
                   file_exists, file_data, output_open, output_pos, map_function,
                   initial_exists, initial_data, pass1_address, pass2_address,
                   collect_src, resolve_src, statement_src, lookups, write_log,
                   query, query_result, aux_vars>>

\* ResolveLabelPass::do_pass, one iteration of its loop.
ResolveStep ==
    /\ pc = "pass2"
    /\ idx <= Len(collect_label_tree)
    /\ LET r == ResolveNode(collect_label_tree[idx], current_address, symbol_table)
       IN /\ current_address' = r.address
          /\ resolve_label_tree' = resolve_label_tree \o r.nodes
          /\ resolve_src' = resolve_src \o Repeat(collect_src[idx], Len(r.nodes))
          /\ error_messages' =
                [error_messages EXCEPT !.pass2 = @ \o ErrorMessages(r.errors)]
          /\ lookups' = lookups \o r.lookups
    /\ pass2_address' = Append(pass2_address, current_address)
    /\ idx' = idx + 1
    /\ UNCHANGED <<system, pc, source, parse_tree, collect_label_tree, instruction_tree,
                   symbol_table, exit_status, file_exists, file_data, output_open,
                   output_pos, map_function, initial_exists, initial_data, stages_run,
                   pass1_address, collect_src, statement_src, write_log,
                   query, query_result, aux_vars>>

\* InstructionToStatementPass::new and the entry of its do_pass.
StartPass3 ==
    /\ LoopDone("pass2")
    /\ ~ExitsAfter("pass2")
    /\ pc' = "pass3"
    /\ idx' = 1
    /\ stages_run' = Append(stages_run, "pass3")
    /\ UNCHANGED <<system, source, parse_tree, collect_label_tree, resolve_label_tree,
                   instruction_tree, symbol_table, current_address, error_messages,
                   exit_status, file_exists, file_data, output_open, output_pos,
                   map_function, initial_exists, initial_data, pass1_address,
                   pass2_address, collect_src, resolve_src, statement_src, lookups,
                   write_log, query, query_result, aux_vars>>

\* InstructionToStatementPass::do_pass, one iteration of its loop.
StatementStep ==
    /\ pc = "pass3"
    /\ idx <= Len(resolve_label_tree)
    /\ LET r == StatementNode(resolve_label_tree[idx])
       IN /\ instruction_tree' = instruction_tree \o r.nodes
          /\ statement_src' = statement_src \o Repeat(resolve_src[idx], Len(r.nodes))
          /\ error_messages' =
                [error_messages EXCEPT !.pass3 = @ \o ErrorMessages(r.errors)]
    /\ idx' = idx + 1
    /\ UNCHANGED <<system, pc, source, parse_tree, collect_label_tree, resolve_label_tree,
                   symbol_table, current_address, exit_status, file_exists, file_data,
                   output_open, output_pos, map_function, initial_exists, initial_data,
                   stages_run, pass1_address, pass2_address, collect_src, resolve_src,
                   lookups, write_log, query, query_result, aux_vars>>

\* OutputWriter::new: create_new(true) succeeds when the path names no
\* file; otherwise File::create opens the existing file and truncates it.
\* Either way the writer starts on an empty file, at offset 0.
NewOutputWriter ==
    /\ LoopDone("pass3")
    /\ ~ExitsAfter("pass3")
    /\ pc' = "write"
    /\ idx' = 1
    /\ file_exists' = TRUE
    /\ file_data' = EmptyFile
    /\ output_open' = TRUE
    /\ output_pos' = 0
    /\ map_function' = "map_default"
    /\ stages_run' = Append(stages_run, "write")
    /\ UNCHANGED <<system, source, parse_tree, collect_label_tree, resolve_label_tree,
                   instruction_tree, symbol_table, current_address, error_messages,
                   exit_status, initial_exists, initial_data, pass1_address,
                   pass2_address, collect_src, resolve_src, statement_src, lookups,
                   write_log, query, query_result, aux_vars>>

\* OutputWriter::write, one iteration of its loop. A panic of
\* write_number_literal ends the process (status 101) with the bytes
\* written so far in the file.
WriteStep ==
    /\ pc = "write"
    /\ idx <= Len(instruction_tree)
    /\ LET node == instruction_tree[idx]
           bytes == WriteBytes(node)
           before == IF node.expr = "OriginStatement"
                     THEN ApplyMap(map_function, node.number)
                     ELSE output_pos
           panics == node.expr \in FinalVariants /\ handle_final_instruction_panics(node)
       IN /\ file_data' = WriteAt(file_data, before, bytes)
          /\ output_pos' = before + Len(bytes)
          /\ map_function' =
                IF node.expr = "SnesMapStatement"
                THEN (IF node.name = "LoRom" THEN "map_snes_lorom" ELSE "map_snes_hirom")
                ELSE map_function
          /\ write_log' = Append(write_log,
                [src |-> statement_src[idx], before |-> output_pos,
                 after |-> before + Len(bytes), bytes |-> bytes])
          /\ pc' = IF panics THEN "panic" ELSE pc
          /\ exit_status' = IF panics THEN 101 ELSE exit_status
    /\ idx' = idx + 1
    /\ UNCHANGED <<system, source, parse_tree, collect_label_tree, resolve_label_tree,
                   instruction_tree, symbol_table, current_address, error_messages,
                   file_exists, output_open, initial_exists, initial_data,
                   stages_run, pass1_address, pass2_address, collect_src, resolve_src,
                   statement_src, lookups, query, query_result, aux_vars>>

\* main returns after output_writer.write: exit status 0.
Finish ==
    /\ LoopDone("write")
    /\ pc' = "done"
    /\ exit_status' = 0
    /\ UNCHANGED <<system, source, idx, parse_tree, collect_label_tree, resolve_label_tree,
                   instruction_tree, symbol_table, current_address, error_messages,
                   file_exists, file_data, output_open, output_pos, map_function,
                   initial_exists, initial_data, stages_run, pass1_address,
                   pass2_address, collect_src, resolve_src, statement_src, lookups,
                   write_log, query, query_result, aux_vars>>

Next ==
    \/ ParseStatement
    \/ ProcessErrors
    \/ StartPass1
    \/ CollectStep
    \/ StartPass2
    \/ ResolveStep
    \/ StartPass3
    \/ StatementStep
    \/ NewOutputWriter
    \/ WriteStep
    \/ Finish

(* ------------------------------------------------------------------ *)
(* Inputs                                                               *)
(* ------------------------------------------------------------------ *)

\* Longest source, in statements, of the pipeline specification.
MaxLen == 2

SeqsUpTo(S, n) == UNION {[1..k -> S] : k \in 0..n}

\* An output file that exists before the run (bytes DE AD BE EF).
ExistingRom == [o \in 0..3 |-> <<222, 173, 190, 239>>[o + 1]]

\* Statements the parser can produce a node for (one per instruction
\* variant and argument kind, labels, directives), and a malformed one.
Statements ==
    { Label("a"), Label("b"),
      Instr("ImpliedInstruction", "nop", << >>),
      Instr("ImmediateInstruction", "lda", <<NumberLiteral(16, "Word8")>>),
      Instr("ImmediateInstruction", "lda", <<Identifier("a")>>),
      Instr("ImmediateInstruction", "lda", <<RegisterArg("x")>>),
      Instr("ImmediateInstruction", "nop", <<NumberLiteral(16, "Word8")>>),
      Instr("SingleArgumentInstruction", "lda", <<NumberLiteral(4660, "Word16")>>),
      Instr("SingleArgumentInstruction", "jmp", <<Identifier("a")>>),
      Instr("SingleArgumentInstruction", "bra", <<Identifier("a")>>),
      Instr("IndexedInstruction", "lda", <<NumberLiteral(16, "Word8"), RegisterArg("x")>>),
      Instr("IndexedInstruction", "lda", <<Identifier("a"), RegisterArg("x")>>),
      Instr("IndirectInstruction", "lda", <<NumberLiteral(16, "Word8")>>),
      Instr("IndirectInstruction", "jmp", <<Identifier("a")>>),
      Instr("IndirectLongInstruction", "lda", <<NumberLiteral(16, "Word8")>>),
      Instr("IndirectLongInstruction", "lda", <<Identifier("a")>>),
      Instr("IndexedIndirectInstruction", "lda",
            <<NumberLiteral(16, "Word8"), RegisterArg("x")>>),
      Instr("IndexedIndirectInstruction", "jmp", <<Identifier("a"), RegisterArg("x")>>),
      Instr("IndirectIndexedInstruction", "lda",
            <<NumberLiteral(16, "Word8"), RegisterArg("y")>>),
      Instr("IndirectIndexedInstruction", "lda", <<Identifier("a"), RegisterArg("y")>>),
      Instr("IndirectIndexedLongInstruction", "lda",
            <<NumberLiteral(16, "Word8"), RegisterArg("y")>>),
      Instr("IndirectIndexedLongInstruction", "lda", <<Identifier("a"), RegisterArg("y")>>),
      Instr("BlockMoveInstruction", "mvn",
            <<NumberLiteral(16, "Word8"), NumberLiteral(32, "Word8")>>),
      Instr("BlockMoveInstruction", "mvn", <<Identifier("a"), NumberLiteral(32, "Word8")>>),
      Instr("StackRelativeIndirectIndexedInstruction", "lda",
            <<NumberLiteral(16, "Word8"), RegisterArg("s"), RegisterArg("y")>>),
      Instr("StackRelativeIndirectIndexedInstruction", "lda",
            <<Identifier("a"), RegisterArg("s"), RegisterArg("y")>>),
      OriginStatement(512),
      SnesMapStatement("LoRom"),
      IncBinStatement("F", 4),
      Malformed }

\* The pipeline on every source of at most MaxLen of these statements,
\* the output path naming no file.
Init ==
    \E statements \in SeqsUpTo(Statements, MaxLen) :
        InitPipeline(statements, FALSE, EmptyFile)

Spec == Init /\ [][Next]_vars

(* ------------------------------------------------------------------ *)
(* Properties                                                           *)
(* ------------------------------------------------------------------ *)

\* The label names the parse tree defines.
DefinedLabels == {parse_tree[i].name : i \in {j \in 1..Len(parse_tree) : parse_tree[j].expr = "Label"}}

\* Every Identifier argument of the parse tree names a label it defines.
AllIdentifiersDefined ==
    \A i \in 1..Len(parse_tree) : \A k \in 1..Len(parse_tree[i].args) :
        parse_tree[i].args[k].kind = "Identifier"
            => parse_tree[i].args[k].name \in DefinedLabels

\* C1: when every identifier names a defined label, pass 2 reaches each
\* non-label node with the current_address pass 1 reached it with.
C1_AddressAgreement ==
    AllIdentifiersDefined =>
        \A k \in 1..Len(pass2_address) :
            pass2_address[k] = pass1_address[collect_src[k]]

\* C5: every name pass 2 has called address_for with is a key of the
\* symbol table has_label was asked about: the default 0 of a missing
\* label is never read, in particular in no run that reaches the writer.
C5_LookupsGuarded ==
    \A k \in 1..Len(lookups) : lookups[k] \in DOMAIN symbol_table

\* A run that reaches the end of emission after pass 2 read a label address.
C5_Witness == pc = "done" /\ lookups # << >>

HasError(stage) ==
    \E i \in 1..Len(error_messages[stage]) : error_messages[stage][i].severity = "Error"

\* C6: the stages start in the order parse, pass 1, pass 2, pass 3, emit;
\* a stage starts only if no earlier stage recorded an Error; once a stage
\* has recorded an Error the run can only end with status 1, and the
\* output writer is never constructed and the output file never touched.
C6_StagesInOrder ==
    /\ Len(stages_run) <= Len(Stages)
    /\ \A k \in 1..Len(stages_run) : stages_run[k] = Stages[k]
    /\ \A k \in 1..(Len(stages_run) - 1) : ~HasError(stages_run[k])
    /\ pc \in {"parse", "pass1", "pass2", "pass3", "write"} => pc = stages_run[Len(stages_run)]
    /\ (\E stage \in DOMAIN error_messages : HasError(stage)) =>
            /\ ~output_open
            /\ file_exists = initial_exists /\ file_data = initial_data
            /\ pc # "done"
            /\ exit_status \in {-1, 1}
    /\ pc = "exit" <=> exit_status = 1
    /\ pc = "done" <=> exit_status = 0
    /\ pc = "exit" => \E stage \in DOMAIN error_messages :
                          HasError(stage) /\ stage = stages_run[Len(stages_run)]

\* A run that pass 3 ended with an Error: exit status 1, no writer.
C6_Witness ==
    pc = "exit" /\ exit_status = 1 /\ HasError("pass3") /\ ~output_open

(* ------------------------------------------------------------------ *)
(* Layout and branches: sources of up to MaxLayoutLen statements        *)
(* ------------------------------------------------------------------ *)

MaxLayoutLen == 3

\* Labels, instructions between them, branches, origins that put a branch
\* out of reach of its target, an included file, and a malformed statement.
LayoutStatements ==
    { Label("a"), Label("b"),
      Instr("ImpliedInstruction", "nop", << >>),
      Instr("IndirectInstruction", "lda", <<NumberLiteral(16, "Word8")>>),
      Instr("IndirectLongInstruction", "lda", <<NumberLiteral(16, "Word8")>>),
      Instr("SingleArgumentInstruction", "bra", <<Identifier("a")>>),
      Instr("SingleArgumentInstruction", "brl", <<Identifier("a")>>),
      OriginStatement(512),
      OriginStatement(65536),
      IncBinStatement("F", 4),
      Malformed }

InitLayout ==
    \E statements \in SeqsUpTo(LayoutStatements, MaxLayoutLen) :
        InitPipeline(statements, FALSE, EmptyFile)

SpecLayout == InitLayout /\ [][Next]_vars

\* The parse_tree indices that hold a Label.
LabelPositions == {i \in 1..Len(parse_tree) : parse_tree[i].expr = "Label"}

\* Labels i < j are consecutive, carry different names that no other
\* label carries, and no OriginStatement lies between them.
ConsecutiveLabels(i, j) ==
    /\ i \in LabelPositions /\ j \in LabelPositions /\ i < j
    /\ \A m \in (i + 1)..(j - 1) :
          parse_tree[m].expr \notin {"Label", "OriginStatement"}
    /\ \A m \in LabelPositions :
          parse_tree[m].name \in {parse_tree[i].name, parse_tree[j].name} => m \in {i, j}
    /\ parse_tree[i].name # parse_tree[j].name

\* The number of bytes the writer emitted, from entry w of its log on, for
\* nodes that come from parse_tree positions strictly between i and j.
RECURSIVE EmittedBetween(_, _, _)
EmittedBetween(i, j, w) ==
    IF w > Len(write_log) THEN 0
    ELSE (IF write_log[w].src > i /\ write_log[w].src < j
          THEN Len(write_log[w].bytes) ELSE 0)
         + EmittedBetween(i, j, w + 1)

\* C2: in a run that has emitted its output, the addresses pass 1 gave two
\* consecutive labels with no origin between them differ by the number of
\* bytes the writer emitted for the statements between them.
C2_LabelDistance ==
    pc = "done" =>
        \A i, j \in 1..Len(parse_tree) :
            ConsecutiveLabels(i, j) =>
                symbol_table[parse_tree[j].name] - symbol_table[parse_tree[i].name]
                    = EmittedBetween(i, j, 1)

\* The operand size of the first Relative entry of a mnemonic.
RelativeEntries(opcode_name) ==
    {e \in 1..Len(system.instructions) :
        /\ system.instructions[e].name = opcode_name
        /\ system.instructions[e].addressing = "Relative"}

RelativeOperandSize(opcode_name) ==
    system.instructions[FirstIndex(RelativeEntries(opcode_name))].arguments[1].sizes[1]

\* Pass 2 has handled node k of its input, a single-argument instruction
\* with a Relative entry whose operand names a defined label.
ResolvedBranch(k) ==
    /\ k \in 1..Len(pass2_address)
    /\ collect_label_tree[k].expr = "SingleArgumentInstruction"
    /\ collect_label_tree[k].args[1].kind = "Identifier"
    /\ collect_label_tree[k].args[1].name \in DOMAIN symbol_table
    /\ RelativeEntries(collect_label_tree[k].name) # {}

\* The nodes pass 2 pushed for node k of its input.
ResolvedNodes(k) ==
    {j \in 1..Len(resolve_label_tree) : resolve_src[j] = collect_src[k]}

SignedRange(size) ==
    CASE size = "Word8" -> -128..127
      [] size = "Word16" -> -32768..32767
      [] OTHER -> {}

\* The low bits of a displacement within the signed range of size.
LowBits(displacement, size) ==
    IF displacement >= 0 THEN displacement
    ELSE IF size = "Word8" THEN displacement + 256 ELSE displacement + 65536

\* Label address minus the address of the byte that follows the branch in
\* the layout pass 1 fixed (the layout the label addresses belong to).
LayoutDisplacement(k) ==
    symbol_table[collect_label_tree[k].args[1].name]
        - (pass1_address[collect_src[k]] + 1
           + argument_size_to_byte_size(RelativeOperandSize(collect_label_tree[k].name)))

\* C3: the operand pass 2 gives a branch to a defined label is the signed
\* displacement from the byte following the branch to the label, in the low
\* 8 bits (W8) or 16 bits (W16) when it is within the operand's range.
C3_BranchDisplacement ==
    \A k \in 1..Len(pass2_address) :
        (ResolvedBranch(k)
         /\ LayoutDisplacement(k) \in SignedRange(RelativeOperandSize(collect_label_tree[k].name)))
        => \A j \in ResolvedNodes(k) :
              resolve_label_tree[j].args[1] =
                  NumberLiteral(LowBits(LayoutDisplacement(k),
                                        RelativeOperandSize(collect_label_tree[k].name)),
                                RelativeOperandSize(collect_label_tree[k].name))

\* The displacement pass 2 computes: from the address it has reached
\* itself (its current_address at the node, the opcode byte, the operand).
ComputedDisplacement(k) ==
    symbol_table[collect_label_tree[k].args[1].name]
        - (pass2_address[k] + 1
           + argument_size_to_byte_size(RelativeOperandSize(collect_label_tree[k].name)))

BranchTooFarRecorded ==
    \E m \in 1..Len(error_messages.pass2) :
        error_messages.pass2[m] = [message |-> BranchTooFar, severity |-> "Error"]

OutOfRangeBranch(k) ==
    /\ ResolvedBranch(k)
    /\ ComputedDisplacement(k) \notin SignedRange(RelativeOperandSize(collect_label_tree[k].name))

\* C4: once pass 2 has computed, for a branch to a defined label, a
\* displacement outside the signed range of its operand, pass 2 holds an
\* Error "branch too far", the operand of the resolved branch is 0, the run
\* never constructs the writer, leaves the output file as it was and does
\* not end with status 0.
C4_BranchOutOfRange ==
    \A k \in 1..Len(pass2_address) :
        OutOfRangeBranch(k) =>
            /\ BranchTooFarRecorded
            /\ \A j \in ResolvedNodes(k) :
                  resolve_label_tree[j].args[1] =
                      NumberLiteral(0, RelativeOperandSize(collect_label_tree[k].name))
            /\ ResolvedNodes(k) # {}
            /\ ~output_open /\ write_log = << >>
            /\ file_exists = initial_exists /\ file_data = initial_data
            /\ pc \notin {"pass3", "write", "done"} /\ exit_status # 0

\* A run that ended with status 1 after pass 2 met a bra whose target lies
\* more than 128 bytes behind the byte that follows it.
C4_Witness ==
    /\ pc = "exit"
    /\ \E k \in 1..Len(pass2_address) :
          /\ OutOfRangeBranch(k)
          /\ collect_label_tree[k].name = "bra"
          /\ ComputedDisplacement(k) < -128

(* ------------------------------------------------------------------ *)
(* find_suitable_instruction on its own: one call per behaviour         *)
(* ------------------------------------------------------------------ *)

MaxQueryLen == 3

\* Mnemonics with one entry, with several entries of one family, with
\* entries that repeat (pha, lsr), and one the table does not hold.
QueryNames == {"lda", "lsr", "pha", "bra", "mvn", "zzz"}

\* The addressing families the arms of pass 3 query.
QueryAddressings == {StatementAddressings(expr) : expr \in InstructionVariants}

\* What add_to_argument_list can push: a Number of any size, or a
\* NotStaticRegister naming a register of the system.
QueryArguments ==
    {Number(size) : size \in ArgumentSize}
        \cup {NotStaticRegister(name) : name \in SNES_CPU.registers}

\* A pass 3 about to call find_suitable_instruction with some query; the
\* driver's variables are those of a run whose source is empty.
InitFind ==
    /\ system = SNES_CPU
    /\ pc = "find"
    /\ \E opcode_name \in QueryNames, possible_addressings \in QueryAddressings,
          possible_arguments \in SeqsUpTo(QueryArguments, MaxQueryLen) :
            query = [opcode_name |-> opcode_name,
                     possible_addressings |-> possible_addressings,
                     possible_arguments |-> possible_arguments]
    /\ query_result = -1
    /\ source = << >> /\ idx = 1
    /\ parse_tree = << >> /\ collect_label_tree = << >>
    /\ resolve_label_tree = << >> /\ instruction_tree = << >>
    /\ symbol_table = NewSymbolTable /\ current_address = 0
    /\ error_messages = [parse |-> << >>, pass1 |-> << >>, pass2 |-> << >>, pass3 |-> << >>]
    /\ exit_status = -1
    /\ file_exists = FALSE /\ file_data = EmptyFile
    /\ output_open = FALSE /\ output_pos = 0 /\ map_function = "map_default"
    /\ initial_exists = FALSE /\ initial_data = EmptyFile
    /\ stages_run = <<"parse", "pass1", "pass2", "pass3">>
    /\ pass1_address = << >> /\ pass2_address = << >>
    /\ collect_src = << >> /\ resolve_src = << >> /\ statement_src = << >>
    /\ lookups = << >> /\ write_log = << >>
    /\ AuxIdle

\* The call: its result is kept, nothing else changes (the function takes
\* &mut self but assigns no field).
FindSuitable ==
    /\ pc = "find"
    /\ query_result' = find_suitable_instruction(query.opcode_name,
                                                 query.possible_addressings,
                                                 query.possible_arguments)
    /\ pc' = "found"
    /\ UNCHANGED <<system, source, idx, parse_tree, collect_label_tree, resolve_label_tree,
                   instruction_tree, symbol_table, current_address, error_messages,
                   exit_status, file_exists, file_data, output_open, output_pos,
                   map_function, initial_exists, initial_data, stages_run,
                   pass1_address, pass2_address, collect_src, resolve_src,
                   statement_src, lookups, write_log, query, aux_vars>>

NextFind == FindSuitable

SpecFind == InitFind /\ [][NextFind]_vars

\* An entry argument matches a query argument.
PairMatches(entry_argument, query_argument) ==
    \/ /\ entry_argument.kind = "Number" /\ query_argument.kind = "Number"
       /\ entry_argument.sizes[1] = query_argument.sizes[1]
    \/ /\ entry_argument.kind = "Numbers" /\ query_argument.kind = "Number"
       /\ query_argument.sizes[1] \in
              {entry_argument.sizes[k] : k \in 1..Len(entry_argument.sizes)}
    \/ /\ entry_argument.kind = "Register" /\ query_argument.kind = "NotStaticRegister"
       /\ entry_argument.register = query_argument.register

\* The table indices whose entry satisfies the conditions of the query.
MatchingEntries ==
    {e \in 1..Len(SNES_CPU.instructions) :
        /\ SNES_CPU.instructions[e].name = query.opcode_name
        /\ SNES_CPU.instructions[e].addressing \in query.possible_addressings
        /\ Len(SNES_CPU.instructions[e].arguments) = Len(query.possible_arguments)
        /\ \A i \in 1..Len(query.possible_arguments) :
              PairMatches(SNES_CPU.instructions[e].arguments[i],
                          query.possible_arguments[i])}

\* C7: the result of find_suitable_instruction is the matching entry of
\* lowest table index, and None (0) exactly when no entry matches; it is
\* determined by the query and the table, which the call leaves as it was.
C7_FirstMatch ==
    pc = "found" =>
        /\ system = SNES_CPU
        /\ (MatchingEntries = {} <=> query_result = 0)
        /\ MatchingEntries # {} =>
              /\ query_result \in MatchingEntries
              /\ \A e \in MatchingEntries : query_result <= e

\* A call that returned an entry although a later entry matches as well.
C7_Witness ==
    /\ pc = "found"
    /\ query_result \in MatchingEntries
    /\ \E e \in MatchingEntries : e > query_result

(* ------------------------------------------------------------------ *)
(* The output writer: sources of up to MaxWriterLen statements, the     *)
(* output path naming no file or an existing one                        *)
(* ------------------------------------------------------------------ *)

MaxWriterLen == 3

\* Both map modes, origins the modes map differently (0, $018005,
\* $C08001), instructions of one and three bytes, an included file, and a
\* malformed statement.
WriterStatements ==
    { SnesMapStatement("LoRom"), SnesMapStatement("HiRom"),
      OriginStatement(0), OriginStatement(98309), OriginStatement(12615681),
      Instr("ImpliedInstruction", "nop", << >>),
      Instr("ImmediateInstruction", "lda", <<NumberLiteral(4660, "Word16")>>),
      IncBinStatement("F", 4),
      Malformed }

InitWriter ==
    \E statements \in SeqsUpTo(WriterStatements, MaxWriterLen), exists \in BOOLEAN :
        InitPipeline(statements, exists, IF exists THEN ExistingRom ELSE EmptyFile)

SpecWriter == InitWriter /\ [][Next]_vars

\* The first offset entry w of the write log wrote at, and whether it
\* wrote offset o.
LogStart(w) == write_log[w].after - Len(write_log[w].bytes)

Covers(w, o) == LogStart(w) <= o /\ o < write_log[w].after

\* C8: when the output file exists before the run, every byte of it at an
\* offset the assembler did not write keeps its value once the writer has
\* opened the file.
C8_ExistingBytesKept ==
    (initial_exists /\ output_open) =>
        \A o \in DOMAIN initial_data :
            (\A w \in 1..Len(write_log) : ~Covers(w, o))
                => (o \in DOMAIN file_data /\ file_data[o] = initial_data[o])

\* The mode of the most recent SnesMapStatement before node w of the AST
\* the writer is given, "" if there is none.
PrecedingMapMode(w) ==
    LET maps == {m \in 1..(w - 1) : instruction_tree[m].expr = "SnesMapStatement"}
    IN IF maps = {} THEN ""
       ELSE instruction_tree[CHOOSE m \in maps : \A x \in maps : x <= m].name

\* The physical address of n under a mode: LoRom drops bit 15 and moves
\* bits 16..22 down by one, HiRom keeps the low 22 bits.
PhysicalAddress(mode, n) ==
    CASE mode = "LoRom" -> ((n \div 65536) % 128) * 32768 + (n % 32768)
      [] mode = "HiRom" -> n % 4194304
      [] OTHER -> n

\* C9: every OriginStatement(n) the writer has handled left the write
\* position at the physical address of n under the most recent preceding
\* SnesMapStatement (n itself if there is none), and every SnesMapStatement
\* wrote no byte and left the write position where it was.
C9_OriginMapped ==
    /\ \A w \in 1..Len(write_log) :
          /\ instruction_tree[w].expr = "OriginStatement" =>
                /\ write_log[w].after =
                      PhysicalAddress(PrecedingMapMode(w), instruction_tree[w].number)
                /\ write_log[w].bytes = << >>
          /\ instruction_tree[w].expr = "SnesMapStatement" =>
                /\ write_log[w].bytes = << >>
                /\ write_log[w].after = write_log[w].before
    /\ (output_open /\ write_log # << >>) =>
          output_pos = write_log[Len(write_log)].after

\* A finished run with an origin under LoRom that the map moved.
C9_Witness ==
    /\ pc = "done"
    /\ \E w \in 1..Len(write_log) :
          /\ instruction_tree[w].expr = "OriginStatement"
          /\ PrecedingMapMode(w) = "LoRom"
          /\ write_log[w].after # instruction_tree[w].number

\* The entries of the write log that wrote offset o.
Writers(o) == {w \in 1..Len(write_log) : Covers(w, o)}

\* C10: the writer handles the nodes in AST order, one log entry per node;
\* each starts where the previous one ended and, unless it is an origin,
\* puts its bytes contiguously from there; the file holds exactly the
\* offsets some node wrote, each with the byte of the last node that
\* wrote it.
C10_LastWriteWins ==
    output_open =>
        /\ Len(write_log) <= Len(instruction_tree)
        /\ \A w \in 1..Len(write_log) :
              /\ write_log[w].src = statement_src[w]
              /\ write_log[w].bytes = WriteBytes(instruction_tree[w])
              /\ write_log[w].before = (IF w = 1 THEN 0 ELSE write_log[w - 1].after)
              /\ instruction_tree[w].expr # "OriginStatement" =>
                    LogStart(w) = write_log[w].before
        /\ DOMAIN file_data = UNION {LogStart(w)..(write_log[w].after - 1) :
                                        w \in 1..Len(write_log)}
        /\ \A o \in DOMAIN file_data :
              LET last == CHOOSE w \in Writers(o) : \A x \in Writers(o) : x <= w
              IN file_data[o] = write_log[last].bytes[o - LogStart(last) + 1]

\* A finished run in which two nodes wrote different bytes to one offset.
C10_Witness ==
    /\ pc = "done"
    /\ \E o \in DOMAIN file_data : \E w1, w2 \in Writers(o) :
          /\ w1 < w2
          /\ write_log[w1].bytes[o - LogStart(w1) + 1]
                # write_log[w2].bytes[o - LogStart(w2) + 1]

(* ------------------------------------------------------------------ *)
(* write_number_literal on its own: one call per behaviour              *)
(* ------------------------------------------------------------------ *)

\* The variables of main when main is not what runs.
PipelineIdle ==
    /\ query = NoQuery /\ query_result = -1
    /\ source = << >> /\ idx = 1
    /\ parse_tree = << >> /\ collect_label_tree = << >>
    /\ resolve_label_tree = << >> /\ instruction_tree = << >>
    /\ symbol_table = NewSymbolTable /\ current_address = 0
    /\ error_messages = [parse |-> << >>, pass1 |-> << >>, pass2 |-> << >>, pass3 |-> << >>]
    /\ exit_status = -1
    /\ file_exists = FALSE /\ file_data = EmptyFile
    /\ output_open = FALSE /\ output_pos = 0 /\ map_function = "map_default"
    /\ initial_exists = FALSE /\ initial_data = EmptyFile
    /\ stages_run = << >>
    /\ pass1_address = << >> /\ pass2_address = << >>
    /\ collect_src = << >> /\ resolve_src = << >> /\ statement_src = << >>
    /\ lookups = << >> /\ write_log = << >>

\* Values that fit one, two, three and four bytes, at the edges of each
\* size (values from 2^31 on are beyond the integers of the checker).
NumberValues ==
    {0, 18, 255, 256, 4660, 65535, 65536, 1193046, 16777215, 16777216,
     305419896, 2147483647}

\* A writer about to write a literal of any value with any declared size
\* (label resolution gives a literal the size of the table entry, whatever
\* the address), on the little-endian system or on a big-endian one.
InitNumber ==
    /\ \E big \in BOOLEAN : system = [SNES_CPU EXCEPT !.is_big_endian = big]
    /\ pc = "number"
    /\ \E v \in NumberValues, size \in ArgumentSize :
          literal = [number |-> v, argument_size |-> size]
    /\ written = NotWritten
    /\ PipelineIdle
    /\ LexerIdle
    /\ ParserIdle

\* The call: the bytes it writes, or its panic.
WriteNumberLiteral ==
    /\ pc = "number"
    /\ LET arg == NumberLiteral(literal.number, literal.argument_size)
       IN written' =
            IF write_number_literal_panics(arg)
            THEN [called |-> TRUE, panicked |-> TRUE, bytes |-> << >>]
            ELSE [called |-> TRUE, panicked |-> FALSE, bytes |-> write_number_literal(arg)]
    /\ pc' = "written"
    /\ UNCHANGED <<system, pipeline_vars, literal, lexer_vars, parser_vars>>

NextNumber == WriteNumberLiteral

SpecNumber == InitNumber /\ [][NextNumber]_vars

\* 256 to the power i, for i in 0..3.
ByteWeight(i) == CASE i = 0 -> 1 [] i = 1 -> 256 [] i = 2 -> 65536 [] OTHER -> 16777216

\* (v >> 8*i) & 0xFF
ByteOf(v, i) == (v \div ByteWeight(i)) % 256

DeclaredBytes(size) ==
    CASE size = "Word8" -> 1 [] size = "Word16" -> 2 [] size = "Word24" -> 3 [] OTHER -> 4

\* C11: a call of write_number_literal writes exactly byte_size(size)
\* bytes, byte i being (v >> 8*i) & 0xFF on a little-endian system and the
\* same bytes in reverse order on a big-endian one, for every value v.
C11_LiteralBytes ==
    written.called =>
        /\ ~written.panicked
        /\ Len(written.bytes) = DeclaredBytes(literal.argument_size)
        /\ \A i \in 0..(DeclaredBytes(literal.argument_size) - 1) :
              written.bytes[IF system.is_big_endian
                            THEN DeclaredBytes(literal.argument_size) - i
                            ELSE i + 1]
                  = ByteOf(literal.number, i)

(* ------------------------------------------------------------------ *)
(* Lexer (zeal/lexer.rs)                                                *)
(* ------------------------------------------------------------------ *)

\* Option<char>::None of peek, peek_lookahead and consume.
None == "None"

LowerCase ==
    {"a", "b", "c", "d", "e", "f", "g", "h", "i", "j", "k", "l", "m",
     "n", "o", "p", "q", "r", "s", "t", "u", "v", "w", "x", "y", "z"}

UpperCase ==
    {"A", "B", "C", "D", "E", "F", "G", "H", "I", "J", "K", "L", "M",
     "N", "O", "P", "Q", "R", "S", "T", "U", "V", "W", "X", "Y", "Z"}

LowerHex == <<"0", "1", "2", "3", "4", "5", "6", "7", "8", "9", "a", "b", "c", "d", "e", "f">>

UpperHex == <<"0", "1", "2", "3", "4", "5", "6", "7", "8", "9", "A", "B", "C", "D", "E", "F">>

is_ascii_numeric == {LowerHex[i] : i \in 1..10}

is_ascii_binary_digit == {"0", "1"}

is_ascii_hex_digit == {LowerHex[i] : i \in 1..16} \cup {UpperHex[i] : i \in 1..16}

is_ascii_alphanumeric == is_ascii_numeric \cup UpperCase \cup LowerCase

\* char::is_whitespace, for the characters of a source file.
is_whitespace == {" ", "\t", "\r", "\n"}

\* char::to_digit(16)
DigitValue(c) == (CHOOSE i \in 1..16 : LowerHex[i] = c \/ UpperHex[i] = c) - 1

\* The String a sequence of characters makes.
RECURSIVE Join(_)
Join(chars) == IF chars = << >> THEN "" ELSE Head(chars) \o Join(Tail(chars))

\* u32::MAX divided by the radix, and the remainder, from 2^31 - 1.
U32MaxDiv(radix) == (2147483647 \div radix) * 2 + 1

U32MaxMod(radix) == ((2147483647 % radix) * 2 + 1) % radix

\* u32::from_str_radix(digits, radix), Err as -1: the empty string and a
\* value above u32::MAX are errors.
RECURSIVE FromStrRadixFrom(_, _, _, _)
FromStrRadixFrom(digits, radix, k, acc) ==
    IF k > Len(digits) THEN acc
    ELSE IF \/ acc > U32MaxDiv(radix)
            \/ acc = U32MaxDiv(radix) /\ DigitValue(digits[k]) > U32MaxMod(radix)
         THEN -1
    ELSE FromStrRadixFrom(digits, radix, k + 1, acc * radix + DigitValue(digits[k]))

from_str_radix(digits, radix) ==
    IF digits = << >> THEN -1 ELSE FromStrRadixFrom(digits, radix, 1, 0)

\* system_definition.rs: number_to_argument_size
number_to_argument_size(number) ==
    IF number > 16777215 THEN "Word32"
    ELSE IF number > 65535 THEN "Word24"
    ELSE IF number > 255 THEN "Word16"
    ELSE "Word8"

\* struct Token; text is the String or char of the token type, number and
\* argument_size the NumberLiteral of a NumberLiteral token.
Token(ttype, text, number, size, lx, start_column, end_column, context_start) ==
    [ttype |-> ttype, text |-> text, number |-> number, argument_size |-> size,
     line |-> lx.line, start_column |-> start_column, end_column |-> end_column,
     context_start |-> context_start]

\* What a lexer method returns and the fields it leaves.
Lexed(token, lx) == [token |-> token, lexer |-> lx]

peek(fc, lx) ==
    IF lx.current_char < Len(fc) THEN fc[lx.current_char + 1] ELSE None

peek_lookahead(fc, lx, n) ==
    IF lx.current_char + n < Len(fc) THEN fc[lx.current_char + n + 1] ELSE None

consume(fc, lx) ==
    IF lx.current_char < Len(fc)
    THEN [lx EXCEPT !.current_char = @ + 1, !.column = @ + 1]
    ELSE lx

do_end_of_line(fc, lx) ==
    LET consumed == consume(fc, [lx EXCEPT !.line = @ + 1, !.column = 0])
    IN [consumed EXCEPT !.line_start = consumed.current_char]

RECURSIVE eat_whitespaces(_, _)
eat_whitespaces(fc, lx) ==
    LET c == peek(fc, lx)
    IN IF c = None THEN lx
       ELSE IF c = "\n" THEN eat_whitespaces(fc, do_end_of_line(fc, lx))
       ELSE IF c \notin is_whitespace THEN lx
       ELSE eat_whitespaces(fc, consume(fc, lx))

\* The inner loop of eat_comment: to the end of the line, or of the file.
RECURSIVE EatCommentLine(_, _)
EatCommentLine(fc, lx) ==
    LET c == peek(fc, lx)
    IN IF c = None THEN lx
       ELSE IF c = "\n" THEN do_end_of_line(fc, lx)
       ELSE EatCommentLine(fc, consume(fc, lx))

\* The outer loop of eat_comment: while the next two characters are "//".
RECURSIVE EatCommentLines(_, _)
EatCommentLines(fc, lx) ==
    IF peek(fc, lx) = "/" /\ peek_lookahead(fc, lx, 1) = "/"
    THEN EatCommentLines(fc, EatCommentLine(fc, lx))
    ELSE lx

eat_comment(fc, lx) == eat_whitespaces(fc, EatCommentLines(fc, lx))

\* loop { match peek { Some(c) if c in class => consume, _ => break } }
RECURSIVE ConsumeWhile(_, _, _)
ConsumeWhile(fc, lx, class) ==
    IF peek(fc, lx) \in class THEN ConsumeWhile(fc, consume(fc, lx), class) ELSE lx

\* loop { match peek { Some(c) if c != stop => consume, _ => break } }
RECURSIVE ConsumeUntil(_, _, _)
ConsumeUntil(fc, lx, stop) ==
    IF peek(fc, lx) \notin {None, stop} THEN ConsumeUntil(fc, consume(fc, lx), stop) ELSE lx

\* The characters consumed between two positions, as a sequence.
Consumed(fc, from, to) == SubSeq(fc, from.current_char + 1, to.current_char)

is_keyword(identifier) ==
    CASE identifier = "include" -> "KeywordInclude"
      [] identifier = "incbin" -> "KeywordIncbin"
      [] identifier = "origin" -> "KeywordOrigin"
      [] identifier = "snesmap" -> "KeywordSnesMap"
      [] OTHER -> None

is_opcode(identifier) ==
    \E i \in 1..Len(system.instructions) : system.instructions[i].name = identifier

is_register(identifier) == identifier \in system.registers

new_token(ttype, text, lx, start_column, end_column, context_start) ==
    Token(ttype, text, 0, "Word8", lx, start_column, end_column, context_start)

new_simple_token(fc, lx, ttype) ==
    LET after == consume(fc, lx)
    IN Lexed(new_token(ttype, "", after, lx.column, after.column, lx.line_start), after)

token_eof(lx) ==
    Lexed(new_token("EndOfFile", "", lx, lx.column, lx.column, lx.line_start), lx)

token_invalid(fc, lx) ==
    LET c == peek(fc, lx)
        after == consume(fc, lx)
    IN Lexed(new_token("Invalid", IF c = None THEN " " ELSE c, after,
                       after.column - 1, after.column, lx.line_start),
             after)

parse_identifier_or_similar(fc, lx) ==
    LET after == ConsumeWhile(fc, consume(fc, lx), is_ascii_alphanumeric \cup {"_"})
        parsed_identifier == Join(Consumed(fc, lx, after))
        ttype == IF is_keyword(parsed_identifier) # None THEN is_keyword(parsed_identifier)
                 ELSE IF is_opcode(parsed_identifier) THEN "Opcode"
                 ELSE IF is_register(parsed_identifier) THEN "Register"
                 ELSE "Identifier"
    IN Lexed(new_token(ttype, parsed_identifier, after, lx.column, after.column, lx.line_start),
             after)

parse_string_literal(fc, lx) ==
    LET opened == consume(fc, lx)
        body == ConsumeUntil(fc, opened, "\"")
    IN IF peek_lookahead(fc, body, 0) = "\""
       THEN LET after == consume(fc, body)
            IN Lexed(new_token("StringLiteral", Join(Consumed(fc, opened, body)), after,
                               lx.column, after.column, lx.line_start),
                     after)
       ELSE token_invalid(fc, body)

\* parse_hex_number's argument_size, from the number of digits.
HexArgumentSize(parsed_length) ==
    IF parsed_length > 6 THEN "Word32"
    ELSE IF parsed_length > 4 THEN "Word24"
    ELSE IF parsed_length > 2 THEN "Word16"
    ELSE "Word8"

\* The same of parse_binary_number.
BinaryArgumentSize(parsed_length) ==
    IF parsed_length > 24 THEN "Word32"
    ELSE IF parsed_length > 16 THEN "Word24"
    ELSE IF parsed_length > 8 THEN "Word16"
    ELSE "Word8"

\* match from_str_radix(..) { Ok(result) => result, Err(_) => 0 }
ResultNumber(digits, radix) ==
    IF from_str_radix(digits, radix) = -1 THEN 0 ELSE from_str_radix(digits, radix)

\* A parse_hex_number that sizes the literal by its value, as parse_number
\* does.
parse_hex_number_by_value(fc, lx) ==
    LET marked == consume(fc, lx)
        after == ConsumeWhile(fc, marked, is_ascii_hex_digit)
        parsed_number == Consumed(fc, marked, after)
    IN Lexed(Token("NumberLiteral", "", ResultNumber(parsed_number, 16),
                   number_to_argument_size(ResultNumber(parsed_number, 16)), after,
                   lx.column, after.column, lx.line_start),
             after)

parse_hex_number(fc, lx) ==
    LET marked == consume(fc, lx)
        after == ConsumeWhile(fc, marked, is_ascii_hex_digit)
        parsed_number == Consumed(fc, marked, after)
    IN Lexed(Token("NumberLiteral", "", ResultNumber(parsed_number, 16),
                   HexArgumentSize(Len(parsed_number)), after,
                   lx.column, after.column, lx.line_start),
             after)

parse_binary_number(fc, lx) ==
    LET marked == consume(fc, lx)
        after == ConsumeWhile(fc, marked, is_ascii_binary_digit)
        parsed_number == Consumed(fc, marked, after)
    IN Lexed(Token("NumberLiteral", "", ResultNumber(parsed_number, 2),
                   BinaryArgumentSize(Len(parsed_number)), after,
                   lx.column, after.column, lx.line_start),
             after)

parse_number(fc, lx) ==
    LET after == ConsumeWhile(fc, consume(fc, lx), is_ascii_numeric)
        result_number == ResultNumber(Consumed(fc, lx, after), 10)
    IN Lexed(Token("NumberLiteral", "", result_number,
                   number_to_argument_size(result_number), after,
                   lx.column, after.column, lx.line_start),
             after)

parse_token(fc, lx, c) ==
    CASE c \in LowerCase \cup UpperCase \cup {"_"} -> parse_identifier_or_similar(fc, lx)
      [] c = "\"" -> parse_string_literal(fc, lx)
      [] c = "#" -> new_simple_token(fc, lx, "Immediate")
      [] c = "$" -> parse_hex_number(fc, lx)
      [] c = "," -> new_simple_token(fc, lx, "Comma")
      [] c = "(" -> new_simple_token(fc, lx, "LeftParen")
      [] c = ")" -> new_simple_token(fc, lx, "RightParen")
      [] c = "[" -> new_simple_token(fc, lx, "LeftBracket")
      [] c = "]" -> new_simple_token(fc, lx, "RightBracket")
      [] c = "%" -> parse_binary_number(fc, lx)
      [] c = ":" -> new_simple_token(fc, lx, "Colon")
      [] OTHER -> IF c \in is_ascii_numeric THEN parse_number(fc, lx)
                  ELSE token_invalid(fc, lx)

\* The fields after the two skipping calls that open get_next_token.
Skipped(fc, lx) == eat_comment(fc, eat_whitespaces(fc, lx))

get_next_token(fc, lx) ==
    LET at == Skipped(fc, lx)
    IN IF peek(fc, at) = None THEN token_eof(at) ELSE parse_token(fc, at, peek(fc, at))

\* Lexer::reset: the fields it assigns.
reset == LexerFields(0, 1, 0, 0)

\* The fields after k calls of get_next_token.
RECURSIVE AfterCalls(_, _, _)
AfterCalls(fc, lx, k) ==
    IF k = 0 THEN lx ELSE AfterCalls(fc, get_next_token(fc, lx).lexer, k - 1)

\* A lookahead that restores the line and the column but leaves the
\* offset and the line start where the calls of get_next_token took them.
lookahead_keeping_offset(fc, lx, times) ==
    LET scanned == get_next_token(fc, AfterCalls(fc, lx, times - 1))
    IN Lexed(scanned.token,
             LexerFields(scanned.lexer.current_char, lx.line, lx.column,
                         scanned.lexer.line_start))

\* Lexer::lookahead: backs the four fields up, calls get_next_token
\* times - 1 times and once more, and writes the four fields back.
lookahead(fc, lx, times) ==
    LET scanned == get_next_token(fc, AfterCalls(fc, lx, times - 1))
    IN Lexed(scanned.token,
             LexerFields(lx.current_char, lx.line, lx.column, lx.line_start))

(* ------------------------------------------------------------------ *)
(* A lexer and its caller                                               *)
(* ------------------------------------------------------------------ *)

Fields == LexerFields(current_char, line, column, line_start)

\* A lexer from_file made on a file with one of the given contents.
InitLexer(contents) ==
    /\ system = SNES_CPU
    /\ pc = "lexer"
    /\ file_content \in contents
    /\ current_char = 0 /\ line = 1 /\ column = 1 /\ line_start = 0
    /\ lexer_base = NewLexer
    /\ returned = << >>
    /\ last_call = NoCall
    /\ PipelineIdle
    /\ NumberIdle
    /\ ParserIdle

SetFields(lx) ==
    /\ current_char' = lx.current_char
    /\ line' = lx.line
    /\ column' = lx.column
    /\ line_start' = lx.line_start

\* A call of get_next_token; the caller stops at the first EndOfFile.
GetNextToken ==
    /\ pc = "lexer"
    /\ IF returned = << >> THEN TRUE ELSE returned[Len(returned)].ttype # "EndOfFile"
    /\ LET result == get_next_token(file_content, Fields)
       IN /\ SetFields(result.lexer)
          /\ returned' = Append(returned, result.token)
          /\ last_call' = [kind |-> "get_next_token", times |-> 1, before |-> Fields,
                           start |-> Skipped(file_content, Fields).current_char,
                           token |-> result.token]
    /\ UNCHANGED <<system, pc, pipeline_vars, number_vars, parser_vars, file_content, lexer_base>>

\* A call of lookahead(times).
Lookahead(times) ==
    /\ pc = "lexer"
    /\ LET result == lookahead(file_content, Fields, times)
       IN /\ SetFields(result.lexer)
          /\ last_call' = [kind |-> "lookahead", times |-> times, before |-> Fields,
                           start |-> Skipped(file_content,
                                             AfterCalls(file_content, Fields, times - 1)).current_char,
                           token |-> result.token]
    /\ UNCHANGED <<system, pc, pipeline_vars, number_vars, parser_vars, file_content, lexer_base, returned>>

\* A call of reset (the file is included again).
Reset ==
    /\ pc = "lexer"
    /\ SetFields(reset)
    /\ lexer_base' = reset
    /\ returned' = << >>
    /\ last_call' = [NoCall EXCEPT !.kind = "reset", !.before = Fields]
    /\ UNCHANGED <<system, pc, pipeline_vars, number_vars, parser_vars, file_content>>

MaxLookahead == 2

NextLexer ==
    \/ GetNextToken
    \/ \E times \in 1..MaxLookahead : Lookahead(times)
    \/ Reset

\* Files of up to MaxContentLen characters: a letter, blanks, the slash of
\* comments, and the characters that open the other kinds of token.
MaxContentLen == 3

LexerChars == {"a", " ", "\n", "/", "$", "\"", ":"}

InitAnyLexer == InitLexer(SeqsUpTo(LexerChars, MaxContentLen))

SpecLexer == InitAnyLexer /\ [][NextLexer]_vars

\* The first k tokens a lexer in state lx returns when nothing but
\* get_next_token is called.
RECURSIVE TokensFrom(_, _, _)
TokensFrom(fc, lx, k) ==
    IF k = 0 THEN << >>
    ELSE <<get_next_token(fc, lx).token>> \o TokensFrom(fc, get_next_token(fc, lx).lexer, k - 1)

\* C12: lookahead(n) returns the token the n-th following call of
\* get_next_token would return and leaves offset, line, column and
\* line_start as they were, so the tokens get_next_token has returned are
\* those it returns when no lookahead is called in between.
C12_LookaheadRestores ==
    /\ returned = TokensFrom(file_content, lexer_base, Len(returned))
    /\ last_call.kind = "lookahead" =>
          /\ Fields = last_call.before
          /\ last_call.token
                = TokensFrom(file_content, last_call.before, last_call.times)[last_call.times]

\* A lookahead of two tokens that ends on a later line, after a token was
\* returned: the calls inside lookahead moved all four fields.
C12_Witness ==
    /\ last_call.kind = "lookahead"
    /\ last_call.times = 2
    /\ returned # << >>
    /\ last_call.start > current_char
    /\ last_call.token.line > line
    /\ last_call.token.context_start > line_start

\* C20: every token get_next_token or lookahead returns, in every state of
\* the lexer (after reset and at the end of the file too), has line >= 1,
\* start_column >= 1 and start_column <= end_column.
C20_TokenPositions ==
    last_call.kind \in {"get_next_token", "lookahead"} =>
        /\ last_call.token.line >= 1
        /\ last_call.token.start_column >= 1
        /\ last_call.token.start_column <= last_call.token.end_column

(* ------------------------------------------------------------------ *)
(* get_next_token over blanks and comments                              *)
(* ------------------------------------------------------------------ *)

\* Files of up to MaxCommentLen characters made of blanks, newlines,
\* slashes and a letter: comment lines, indented or not, blank lines
\* between them, text after them.
MaxCommentLen == 6

CommentChars == {"/", "\n", " ", "a"}

InitComment == InitLexer(SeqsUpTo(CommentChars, MaxCommentLen))

\* The caller reads the file token by token.
NextScan == GetNextToken

SpecComment == InitComment /\ [][NextScan]_vars

\* C13: get_next_token skips every run of whitespace and // comments, in
\* any interleaving, before it produces a token: no token starts at a
\* whitespace character or at the // of a comment.
C13_SkipsBlanksAndComments ==
    (last_call.kind = "get_next_token" /\ last_call.token.ttype # "EndOfFile") =>
        LET at == last_call.start + 1
        IN /\ file_content[at] \notin is_whitespace
           /\ ~(/\ file_content[at] = "/"
                /\ at < Len(file_content)
                /\ file_content[at + 1] = "/")

(* ------------------------------------------------------------------ *)
(* Hex literals                                                         *)
(* ------------------------------------------------------------------ *)

\* Literals of up to MaxHexDigits digits: zeros (small values in long
\* literals), a digit, a letter.
MaxHexDigits == 7

HexChars == {"0", "7", "F"}

\* The digits after the leading zeros.
RECURSIVE Significant(_)
Significant(digits) ==
    IF digits # << >> /\ Head(digits) = "0" THEN Significant(Tail(digits)) ELSE digits

\* Literals whose value and partial values are below 2^31.
HexLiterals ==
    {digits \in SeqsUpTo(HexChars, MaxHexDigits) :
        Len(Significant(digits)) <= 7 \/ DigitValue(Significant(digits)[1]) <= 7}

\* A file that holds one hex literal.
InitHex == InitLexer({<<"$">> \o digits : digits \in HexLiterals})

SpecHex == InitHex /\ [][NextScan]_vars

\* The size the number of digits gives.
SizeOfDigitCount(n) ==
    CASE n > 6 -> "Word32"
      [] n \in {5, 6} -> "Word24"
      [] n \in {3, 4} -> "Word16"
      [] OTHER -> "Word8"

\* C14: the ArgumentSize of the NumberLiteral of a hex literal $H is a
\* function of the number of digits of H only (Word32 above 6 digits,
\* Word24 above 4, Word16 above 2, else Word8), whatever the value.
C14_HexSizeByDigits ==
    Len(returned) >= 1 =>
        /\ returned[1].ttype = "NumberLiteral"
        /\ returned[1].argument_size = SizeOfDigitCount(Len(file_content) - 1)
        /\ returned[1].end_column - returned[1].start_column = Len(file_content)

\* A literal of seven digits whose value fits one byte: its size is not
\* the size the value has.
C14_Witness ==
    /\ Len(returned) >= 1
    /\ Len(file_content) = 8
    /\ returned[1].number \in 1..255
    /\ returned[1].argument_size = "Word32"

(* ------------------------------------------------------------------ *)
(* Parser (zeal/parser.rs), on the tokens of its lexers                 *)
(* ------------------------------------------------------------------ *)

\* A Lexer in Parser.lexers.
FileLexer(filename, content, fields) ==
    [source_file |-> filename, file_content |-> content, fields |-> fields]

\* The parser as one value: what its methods read and change.
ParserState(ls, current, messages) ==
    [lexers |-> ls, current_lexer |-> current, error_messages |-> messages]

\* ParseResult::{None, Done, Error, Some(value)} and the parser after it.
ParseResult(kind, value, ps) == [kind |-> kind, value |-> value, parser |-> ps]

NoValue == [expr |-> "None"]

\* Parser::lexer().unwrap()
CurrentLexer(ps) == ps.lexers[ps.current_lexer + 1]

\* The fields a Lexer of a file can have: those from_file and reset leave,
\* and those get_next_token leaves from there.
RECURSIVE LexerStatesFrom(_, _, _)
LexerStatesFrom(fc, new, seen) ==
    IF new = {} THEN seen
    ELSE LexerStatesFrom(fc,
                         {get_next_token(fc, lx).lexer : lx \in new} \ (seen \cup new),
                         seen \cup new)

\* The farthest Parser::lookahead call of parser.rs: self.lookahead(2).
MaxParserLookahead == 2

\* Lexer::get_next_token and Lexer::lookahead of a file, at each of these
\* fields: lexer_results holds them by file, the parser reads them there.
LexerResults(fc) ==
    [lx \in LexerStatesFrom(fc, {NewLexer, reset}, {}) |->
        [get_next_token |-> get_next_token(fc, lx),
         lookahead |-> [times \in 1..MaxParserLookahead |-> lookahead(fc, lx, times).token]]]

\* Parser::lookahead
Parser_lookahead(ps, times) ==
    lexer_results[CurrentLexer(ps).source_file][CurrentLexer(ps).fields].lookahead[times]

\* Parser::get_next_token: the token, and the parser with the lexer moved.
Parser_get_next_token(ps) ==
    LET result ==
            lexer_results[CurrentLexer(ps).source_file][CurrentLexer(ps).fields].get_next_token
    IN [token |-> result.token,
        parser |-> [ps EXCEPT !.lexers[ps.current_lexer + 1].fields = result.lexer]]

\* self.get_next_token(); with the token dropped.
Eat(ps) == Parser_get_next_token(ps).parser

\* Parser::add_error_message
add_error_message(ps, error_message, offending_token) ==
    [ps EXCEPT !.error_messages =
        Append(@, [message |-> error_message, severity |-> "Error",
                   token |-> offending_token])]

\* Parser::add_invalid_token_message; the message without the character.
add_invalid_token_message(ps, token) ==
    add_error_message(ps, "Invalid token found.", token)

\* Parser::parse_argument
parse_argument(ps) ==
    LET la == Parser_lookahead(ps, 1)
    IN CASE la.ttype = "NumberLiteral" ->
              ParseResult("Some", NumberLiteral(la.number, la.argument_size), Eat(ps))
         [] la.ttype = "Register" ->
              ParseResult("Some", RegisterArg(la.text), Eat(ps))
         [] la.ttype = "Identifier" ->
              IF Parser_lookahead(ps, 2).ttype = "Colon"
              THEN ParseResult("None", NoValue, ps)
              ELSE ParseResult("Some", Identifier(la.text), Eat(ps))
         [] la.ttype = "Opcode" -> ParseResult("None", NoValue, ps)
         [] la.ttype = "Invalid" ->
              ParseResult("Error", NoValue, add_invalid_token_message(Eat(ps), la))
         [] la.ttype = "EndOfFile" -> ParseResult("Done", NoValue, ps)
         [] OTHER ->
              ParseResult("Error", NoValue,
                  add_error_message(Eat(ps),
                      "A number literal or register was expected here.", la))

\* match argument { Some(result) => .., None => error, Error => Error,
\* Done => Done }: the three arms that do not build a node.
NoArgument(argument, message, token) ==
    CASE argument.kind = "None" ->
              ParseResult("Error", NoValue, add_error_message(argument.parser, message, token))
      [] argument.kind = "Error" -> ParseResult("Error", NoValue, argument.parser)
      [] OTHER -> ParseResult("Done", NoValue, argument.parser)

\* A last argument: the node with it, or the result of NoArgument.
LastArgument(argument, expr, opcode_name, args, message, token) ==
    IF argument.kind = "Some"
    THEN ParseResult("Some", Instr(expr, opcode_name, Append(args, argument.value)),
                     argument.parser)
    ELSE NoArgument(argument, message, token)

\* Parser::parse_immediate
parse_immediate(ps, opcode_token, opcode_name) ==
    LastArgument(parse_argument(Eat(ps)), "ImmediateInstruction", opcode_name, << >>,
                 "number expected as argument.", opcode_token)

\* Parser::parse_indirect
parse_indirect(ps, opcode_token, opcode_name) ==
    LET left_paren == Parser_get_next_token(ps).token
        argument == parse_argument(Eat(ps))
        first == argument.parser
        la == Parser_lookahead(first, 1)
    IN IF argument.kind # "Some"
       THEN NoArgument(argument, "number expected as argument.", opcode_token)
       ELSE IF la.ttype = "RightParen"
       THEN IF Parser_lookahead(Eat(first), 1).ttype = "Comma"
            THEN LastArgument(parse_argument(Eat(Eat(first))), "IndirectIndexedInstruction",
                              opcode_name, <<argument.value>>,
                              "register expected as argument.", opcode_token)
            ELSE ParseResult("Some",
                     Instr("IndirectInstruction", opcode_name, <<argument.value>>),
                     Eat(first))
       ELSE IF la.ttype = "Comma"
       THEN LET second_argument == parse_argument(Eat(first))
                second == second_argument.parser
            IN IF second_argument.kind # "Some"
               THEN NoArgument(second_argument, "register expected as argument.", opcode_token)
               ELSE IF Parser_lookahead(second, 1).ttype = "RightParen"
               THEN IF Parser_lookahead(Eat(second), 1).ttype = "Comma"
                    THEN LastArgument(parse_argument(Eat(Eat(second))),
                                      "StackRelativeIndirectIndexedInstruction", opcode_name,
                                      <<argument.value, second_argument.value>>,
                                      "register expected as argument.", opcode_token)
                    ELSE ParseResult("Some",
                             Instr("IndexedIndirectInstruction", opcode_name,
                                   <<argument.value, second_argument.value>>),
                             Eat(second))
               ELSE ParseResult("Error", NoValue,
                        add_error_message(second, "no closing parenthesis found.", left_paren))
       ELSE ParseResult("Error", NoValue,
                add_error_message(first, "no closing parenthesis found.", left_paren))

\* Parser::parse_indirect_long
parse_indirect_long(ps, opcode_token, opcode_name) ==
    LET left_bracket == Parser_get_next_token(ps).token
        argument == parse_argument(Eat(ps))
        first == argument.parser
    IN IF argument.kind # "Some"
       THEN NoArgument(argument, "number expected as argument.", opcode_token)
       ELSE IF Parser_lookahead(first, 1).ttype = "RightBracket"
       THEN IF Parser_lookahead(Eat(first), 1).ttype = "Comma"
            THEN LastArgument(parse_argument(Eat(Eat(first))),
                              "IndirectIndexedLongInstruction", opcode_name,
                              <<argument.value>>,
                              "register expected as argument.", opcode_token)
            ELSE ParseResult("Some",
                     Instr("IndirectLongInstruction", opcode_name, <<argument.value>>),
                     Eat(first))
       ELSE ParseResult("Error", NoValue,
                add_error_message(first, "no closing bracket found.", left_bracket))

\* Parser::parse_cpu_instruction
parse_cpu_instruction(ps, opcode_token, opcode_name) ==
    LET la == Parser_lookahead(ps, 1)
        argument == parse_argument(ps)
        first == argument.parser
        second_lookahead == Parser_lookahead(Eat(first), 1)
    IN CASE la.ttype = "Immediate" -> parse_immediate(ps, opcode_token, opcode_name)
         [] la.ttype = "LeftParen" -> parse_indirect(ps, opcode_token, opcode_name)
         [] la.ttype = "LeftBracket" -> parse_indirect_long(ps, opcode_token, opcode_name)
         [] OTHER ->
              IF argument.kind \in {"None", "Done"}
              THEN ParseResult("Some", Instr("ImpliedInstruction", opcode_name, << >>), first)
              ELSE IF argument.kind = "Error"
              THEN ParseResult("Error", NoValue, first)
              ELSE IF Parser_lookahead(first, 1).ttype # "Comma"
              THEN ParseResult("Some",
                       Instr("SingleArgumentInstruction", opcode_name, <<argument.value>>),
                       first)
              ELSE IF second_lookahead.ttype = "Register"
              THEN LastArgument(parse_argument(Eat(first)), "IndexedInstruction", opcode_name,
                                <<argument.value>>,
                                "expected register or register as second argument.",
                                opcode_token)
              ELSE IF second_lookahead.ttype = "NumberLiteral"
              THEN LastArgument(parse_argument(Eat(first)), "BlockMoveInstruction", opcode_name,
                                <<argument.value>>,
                                "expected number or register as second argument.",
                                opcode_token)
              ELSE ParseResult("Error", NoValue,
                       add_error_message(Eat(Eat(first)),
                           "expected number or register as second argument.", opcode_token))

\* Parser::parse_label
parse_label(ps, label_token, label_name) ==
    IF Parser_lookahead(ps, 1).ttype = "Colon"
    THEN ParseResult("Some", Label(label_name), Eat(ps))
    ELSE ParseResult("Error", NoValue,
             add_error_message(ps, "Expected a colon after this identifier.", label_token))

\* The three arms the directives share: an Invalid token after the
\* keyword is eaten and reported, the end of the file is Done, any other
\* token is reported against the keyword and left in place.
NoDirectiveArgument(ps, la, message, origin_token) ==
    CASE la.ttype = "Invalid" ->
              ParseResult("Error", NoValue, add_invalid_token_message(Eat(ps), la))
      [] la.ttype = "EndOfFile" -> ParseResult("Done", NoValue, ps)
      [] OTHER -> ParseResult("Error", NoValue, add_error_message(ps, message, origin_token))

\* Parser::parse_origin_statement
parse_origin_statement(ps, origin_token) ==
    LET la == Parser_lookahead(ps, 1)
    IN IF la.ttype = "NumberLiteral"
       THEN ParseResult("Some", OriginStatement(la.number), Eat(ps))
       ELSE NoDirectiveArgument(ps, la,
                "Expected a number literal after origin keyword.", origin_token)

identifier_to_snesmap(identifier) ==
    IF identifier = "lorom" THEN "LoRom"
    ELSE IF identifier = "hirom" THEN "HiRom"
    ELSE None

\* Parser::parse_snesmap_statement
parse_snesmap_statement(ps, origin_token) ==
    LET la == Parser_lookahead(ps, 1)
    IN IF la.ttype = "Identifier"
       THEN IF identifier_to_snesmap(la.text) # None
            THEN ParseResult("Some", SnesMapStatement(identifier_to_snesmap(la.text)), Eat(ps))
            ELSE ParseResult("Error", NoValue,
                     add_error_message(Eat(ps),
                         "Expected lorom or hirom as argument to snesmap.", origin_token))
       ELSE NoDirectiveArgument(ps, la,
                "Expected lorom or hirom as argument to snesmap.", origin_token)

\* Parser::set_current_input_file; disk gives the content of each file.
set_current_input_file(ps, filename, disk) ==
    IF \E index \in 1..Len(ps.lexers) : ps.lexers[index].source_file = filename
    THEN LET index == CHOOSE i \in 1..Len(ps.lexers) :
                          /\ ps.lexers[i].source_file = filename
                          /\ \A j \in 1..(i - 1) : ps.lexers[j].source_file # filename
         IN [ps EXCEPT !.current_lexer = index - 1, !.lexers[index].fields = reset]
    ELSE [ps EXCEPT !.lexers = Append(@, FileLexer(filename, disk[filename], NewLexer)),
                    !.current_lexer = Len(ps.lexers)]

\* Parser::parse_include; metadata(path) is Ok for the files on the disk.
parse_include(ps, origin_token, disk) ==
    LET la == Parser_lookahead(ps, 1)
    IN IF la.ttype = "StringLiteral"
       THEN IF la.text \in DOMAIN disk
            THEN ParseResult("None", NoValue, set_current_input_file(Eat(ps), la.text, disk))
            ELSE ParseResult("Error", NoValue,
                     add_error_message(Eat(ps),
                         "Couldn't open file for include statement", origin_token))
       ELSE NoDirectiveArgument(ps, la,
                "Expected a string literal as argument to incbin", origin_token)

\* Parser::parse_incbin; the node holds the path and the size of the file.
parse_incbin(ps, origin_token, disk) ==
    LET la == Parser_lookahead(ps, 1)
    IN IF la.ttype = "StringLiteral"
       THEN IF la.text \in DOMAIN disk
            THEN ParseResult("Some", IncBinStatement(la.text, Len(disk[la.text])), Eat(ps))
            ELSE ParseResult("Error", NoValue,
                     add_error_message(Eat(ps),
                         "Couldn't open file for incbin statement", origin_token))
       ELSE NoDirectiveArgument(ps, la,
                "Expected a string literal as argument to incbin", origin_token)

\* Parser::parse
parse(ps, disk) ==
    LET token == Parser_get_next_token(ps).token
        after == Eat(ps)
    IN CASE token.ttype = "EndOfFile" -> ParseResult("Done", NoValue, after)
         [] token.ttype = "Opcode" -> parse_cpu_instruction(after, token, token.text)
         [] token.ttype = "Identifier" -> parse_label(after, token, token.text)
         [] token.ttype = "KeywordInclude" -> parse_include(after, token, disk)
         [] token.ttype = "KeywordIncbin" -> parse_incbin(after, token, disk)
         [] token.ttype = "KeywordOrigin" -> parse_origin_statement(after, token)
         [] token.ttype = "KeywordSnesMap" -> parse_snesmap_statement(after, token)
         [] token.ttype = "Invalid" ->
              ParseResult("Error", NoValue, add_invalid_token_message(after, token))
         [] OTHER ->
              ParseResult("Error", NoValue,
                  add_error_message(after, "unexpected token found.", token))

(* ------------------------------------------------------------------ *)
(* parse_tree on a root file and the files it includes                  *)
(* ------------------------------------------------------------------ *)

\* The lines the files are made of, each a statement of the grammar but
\* "lda ,", which has a comma where its argument should be.
LineText(l) ==
    CASE l = "nop" -> <<"n", "o", "p", "\n">>
      [] l = "lda #$12" -> <<"l", "d", "a", " ", "#", "$", "1", "2", "\n">>
      [] l = "origin $10" -> <<"o", "r", "i", "g", "i", "n", " ", "$", "1", "0", "\n">>
      [] l = "lda ," -> <<"l", "d", "a", " ", ",", "\n">>
      [] l = "include a" -> <<"i", "n", "c", "l", "u", "d", "e", " ", "\"", "a", "\"", "\n">>
      [] l = "include b" -> <<"i", "n", "c", "l", "u", "d", "e", " ", "\"", "b", "\"", "\n">>
      [] l = "lda #" -> <<"l", "d", "a", " ", "#", "\n">>
      [] l = "origin" -> <<"o", "r", "i", "g", "i", "n", "\n">>
      [] l = "snesmap" -> <<"s", "n", "e", "s", "m", "a", "p", "\n">>
      [] l = "incbin" -> <<"i", "n", "c", "b", "i", "n", "\n">>
      [] l = "include" -> <<"i", "n", "c", "l", "u", "d", "e", "\n">>
      [] l = "include r" -> <<"i", "n", "c", "l", "u", "d", "e", " ", "\"", "r", "\"", "\n">>

RECURSIVE Flatten(_)
Flatten(ls) == IF ls = << >> THEN << >> ELSE LineText(Head(ls)) \o Flatten(Tail(ls))

\* The root file r of up to MaxRootLines lines; it may include a and b,
\* b (up to MaxIncludedLines lines) may include a, a includes nothing.
MaxRootLines == 3

MaxIncludedLines == 2

RootLines == {"nop", "lda #$12", "origin $10", "lda ,", "include a", "include b"}

HasLine(ls, l) == \E i \in 1..Len(ls) : ls[i] = l

\* A file that no include directive of the run names is left empty.
Sources ==
    {s \in {[r |-> root, a |-> leaf, b |-> inner] :
                root \in SeqsUpTo(RootLines, MaxRootLines),
                leaf \in SeqsUpTo({"nop"}, 1),
                inner \in SeqsUpTo({"nop", "include a"}, MaxIncludedLines)} :
        /\ HasLine(s.r, "include b") \/ s.b = << >>
        /\ HasLine(s.r, "include a") \/ HasLine(s.b, "include a") \/ s.a = << >>}

\* Parser::new, then set_current_input_file on the root file.
InitParser ==
    /\ system = SNES_CPU
    /\ pc = "parse_tree"
    /\ sources \in Sources
    /\ files = [f \in DOMAIN sources |-> Flatten(sources[f])]
    /\ lexer_results = [f \in DOMAIN files |-> LexerResults(files[f])]
    /\ lexers = <<FileLexer("r", files["r"], NewLexer)>>
    /\ current_lexer = 0
    /\ include_stack = << >>
    /\ last_parse = NoParse
    /\ PipelineIdle
    /\ NumberIdle
    /\ LexerIdle

\* The file whose statements are due: the one included last and not yet
\* read to its end, or the root file.
OpenFile == IF include_stack = << >> THEN 0 ELSE Head(include_stack).included

\* The include directives remembered at most: the record of the open
\* directives keeps the latest ones, so that a parser that goes round a
\* cycle of includes comes back to a state it has been in.
MaxIncludeDepth == 4

Latest(stack) ==
    IF Len(stack) > MaxIncludeDepth THEN SubSeq(stack, 1, MaxIncludeDepth) ELSE stack

\* One iteration of the loop of parse_tree: a call of parse, and the arm
\* of the match on its result.
ParseStep ==
    /\ pc = "parse_tree"
    /\ LET result == parse(ParserState(lexers, current_lexer, error_messages.parse), files)
           after == result.parser
           popped == after.current_lexer - 1
       IN /\ lexers' = after.lexers
          /\ error_messages' = [error_messages EXCEPT !.parse = after.error_messages]
          /\ parse_tree' = IF result.kind = "Some" THEN Append(parse_tree, result.value)
                           ELSE parse_tree
          /\ current_lexer' = IF result.kind = "Done" THEN popped ELSE after.current_lexer
          /\ pc' = IF result.kind = "Done" /\ popped < 0 THEN "parsed" ELSE pc
          /\ include_stack' =
                CASE result.kind = "None" ->
                       Latest(<<[lexer |-> current_lexer,
                                 at |-> after.lexers[current_lexer + 1].fields,
                                 included |-> after.current_lexer]>> \o include_stack)
                  [] result.kind = "Done" /\ OpenFile = current_lexer /\ include_stack # << >> ->
                       Tail(include_stack)
                  [] OTHER -> include_stack
          /\ last_parse' = [kind |-> result.kind, lexer |-> current_lexer, open |-> OpenFile,
                            odd |-> ~last_parse.odd]
    /\ UNCHANGED <<system, source, idx, collect_label_tree, resolve_label_tree,
                   instruction_tree, symbol_table, current_address, exit_status,
                   file_exists, file_data, output_open, output_pos, map_function,
                   initial_exists, initial_data, stages_run, pass1_address, pass2_address,
                   collect_src, resolve_src, statement_src, lookups, write_log,
                   query, query_result, number_vars, lexer_vars, files, sources,
                   lexer_results>>

NextParser == ParseStep

SpecParser == InitParser /\ [][NextParser]_vars

\* A lexer has no token left.
AtEndOfFile(lexer) ==
    peek(lexer.file_content, Skipped(lexer.file_content, lexer.fields)) = None

\* C15: when the lexer of an included file yields EndOfFile the parser
\* resumes in the file that holds the include directive, at the token
\* after the directive's string literal (also when the file is included a
\* second time, from another file); parsing ends only when the root file
\* yields EndOfFile, and no statement of an including file is skipped.
C15_ResumesInIncluder ==
    /\ last_parse.kind \in {"Some", "Error", "None"} => last_parse.lexer = last_parse.open
    /\ \A k \in 1..Len(include_stack) :
          lexers[include_stack[k].lexer + 1].fields = include_stack[k].at
    /\ pc = "parsed" =>
          /\ last_parse.lexer = 0
          /\ include_stack = << >>
          /\ \A i \in 1..Len(lexers) : AtEndOfFile(lexers[i])

\* The node of a line that is a statement of the grammar.
LineNode(l) ==
    CASE l = "nop" -> Instr("ImpliedInstruction", "nop", << >>)
      [] l = "lda #$12" -> Instr("ImmediateInstruction", "lda", <<NumberLiteral(18, "Word8")>>)
      [] l = "origin $10" -> OriginStatement(16)

RECURSIVE LineNodes(_)
LineNodes(ls) ==
    IF ls = << >> THEN << >>
    ELSE IF Head(ls) = "lda ," THEN LineNodes(Tail(ls))
    ELSE <<LineNode(Head(ls))>> \o LineNodes(Tail(ls))

\* The lines after the first "lda ," of a file.
RECURSIVE AfterMalformed(_)
AfterMalformed(ls) ==
    IF ls = << >> THEN << >>
    ELSE IF Head(ls) = "lda ," THEN Tail(ls)
    ELSE AfterMalformed(Tail(ls))

\* The last n elements of a sequence.
LastOf(s, n) == SubSeq(s, Len(s) - n + 1, Len(s))

\* C16: after the error for a malformed statement parse_tree keeps
\* parsing: the well-formed statements that follow the tokens the recovery
\* consumed (for "lda ," the comma) are parsed and are in the returned
\* list, the error list has one entry for the malformed statement, and
\* parse_tree returns only at the end of the root file. (Root files
\* without include directives.)
C16_ParsingGoesOn ==
    LET root == sources["r"]
        malformed == {i \in 1..Len(root) : root[i] = "lda ,"}
        expected == LineNodes(AfterMalformed(root))
        messages == error_messages.parse
    IN (pc \in {"parse_tree", "parsed"} /\ \A i \in 1..Len(root) : root[i] \notin {"include a", "include b"}) =>
          /\ last_parse.kind = "Error" => pc = "parse_tree"
          /\ (pc = "parsed" /\ malformed # {}) =>
                /\ AtEndOfFile(lexers[1])
                /\ Len(parse_tree) >= Len(expected)
                /\ LastOf(parse_tree, Len(expected)) = expected
                /\ \A i \in malformed :
                      Cardinality({j \in 1..Len(messages) : messages[j].token.line = i}) = 1

(* ------------------------------------------------------------------ *)
(* Pass 1: the output tree and the symbol table                         *)
(* ------------------------------------------------------------------ *)

\* The number of parse_tree nodes pass 1 has gone through.
Collected ==
    IF "pass1" \notin {stages_run[k] : k \in 1..Len(stages_run)} THEN 0
    ELSE IF pc = "pass1" THEN idx - 1
    ELSE Len(parse_tree)

\* The nodes of tree that are not Label nodes, in their order.
WithoutLabels(tree) ==
    LET NotLabel(node) == node.expr # "Label"
    IN SelectSeq(tree, NotLabel)

\* The indices among the first n nodes of parse_tree that hold Label name.
LabelsNamed(name, n) ==
    {i \in 1..n : parse_tree[i].expr = "Label" /\ parse_tree[i].name = name}

Max(S) == CHOOSE x \in S : \A y \in S : y <= x

\* C17: pass 1 records no error; its output is its input without the
\* Label nodes, in the same order; its table holds exactly the names of
\* the Label nodes, each with the value current_address had at the last
\* Label node of that name, and that is the address a later lookup of the
\* name returns.
C17_PassOneOutput ==
    /\ error_messages.pass1 = << >>
    /\ "pass1" \in {stages_run[k] : k \in 1..Len(stages_run)} =>
          /\ collect_label_tree = WithoutLabels(SubSeq(parse_tree, 1, Collected))
          /\ DOMAIN symbol_table =
                {parse_tree[i].name : i \in {j \in 1..Collected : parse_tree[j].expr = "Label"}}
          /\ \A name \in DOMAIN symbol_table :
                /\ symbol_table[name] = pass1_address[Max(LabelsNamed(name, Collected))]
                /\ address_for(symbol_table, name) = symbol_table[name]
                /\ has_label(symbol_table, name)

\* Pass 1 is over on a source that defines a label twice, at different
\* addresses.
C17_Witness ==
    /\ pc \in {"pass2", "pass3", "write", "done"}
    /\ \E i, j \in 1..Len(parse_tree) :
          /\ i < j
          /\ parse_tree[i].expr = "Label" /\ parse_tree[j].expr = "Label"
          /\ parse_tree[i].name = parse_tree[j].name
          /\ pass1_address[i] # pass1_address[j]

\* C18: once pass 1 is over, no step of pass 2, pass 3 or the writer, nor
\* the exit after their errors, changes the symbol table.
C18_TableReadOnly ==
    [][pc \notin {"parse", "pass1"} \/ LoopDone("pass1") => symbol_table' = symbol_table]_vars

\* A run that ended after pass 2 recorded an error, with a label in the
\* table.
C18_Witness ==
    /\ pc = "exit"
    /\ HasError("pass2")
    /\ DOMAIN symbol_table # {}

(* ------------------------------------------------------------------ *)
(* Pass 1 called again on the table it left                             *)
(* ------------------------------------------------------------------ *)

RECURSIVE CollectFrom(_, _, _, _, _)
CollectFrom(tree, k, address, nodes, table) ==
    IF k > Len(tree) THEN [tree |-> nodes, table |-> table]
    ELSE LET r == CollectNode(tree[k], address, table)
         IN CollectFrom(tree, k + 1, r.address, nodes \o r.nodes, r.table)

\* Mutant: current_address starts at the highest address of the table.
do_pass_from_table(tree, table) ==
    CollectFrom(tree, 1,
                IF DOMAIN table = {} THEN 0
                ELSE Max({table[n] : n \in DOMAIN table}),
                << >>, table)

\* CollectLabelPass::do_pass as a whole: current_address and new_tree are
\* locals that start at 0 and empty; the table is the caller's.
do_pass(tree, table) == CollectFrom(tree, 1, 0, << >>, table)

MaxPass1Runs == 2

\* An AST as the parser returns it, and an empty table; idx counts the
\* calls of do_pass, from 1.
InitPass1 ==
    /\ system = SNES_CPU
    /\ pc = "do_pass"
    /\ parse_tree \in SeqsUpTo(LayoutStatements \ {Malformed}, MaxLayoutLen)
    /\ source = << >> /\ idx = 1
    /\ collect_label_tree = << >>
    /\ resolve_label_tree = << >> /\ instruction_tree = << >>
    /\ symbol_table = NewSymbolTable /\ current_address = 0
    /\ error_messages = [parse |-> << >>, pass1 |-> << >>, pass2 |-> << >>, pass3 |-> << >>]
    /\ exit_status = -1
    /\ file_exists = FALSE /\ file_data = EmptyFile
    /\ output_open = FALSE /\ output_pos = 0 /\ map_function = "map_default"
    /\ initial_exists = FALSE /\ initial_data = EmptyFile
    /\ stages_run = << >>
    /\ pass1_address = << >> /\ pass2_address = << >>
    /\ collect_src = << >> /\ resolve_src = << >> /\ statement_src = << >>
    /\ lookups = << >> /\ write_log = << >>
    /\ query = NoQuery /\ query_result = -1
    /\ AuxIdle

\* One call of CollectLabelPass::do_pass(&parse_tree, &mut symbol_table).
DoPass ==
    /\ pc = "do_pass"
    /\ idx <= MaxPass1Runs
    /\ LET r == do_pass(parse_tree, symbol_table)
       IN /\ collect_label_tree' = r.tree
          /\ symbol_table' = r.table
    /\ idx' = idx + 1
    /\ stages_run' = Append(stages_run, "pass1")
    /\ UNCHANGED <<system, pc, source, parse_tree, resolve_label_tree, instruction_tree,
                   current_address, error_messages, exit_status, file_exists, file_data,
                   output_open, output_pos, map_function, initial_exists, initial_data,
                   pass1_address, pass2_address, collect_src, resolve_src,
                   statement_src, lookups, write_log, query, query_result, aux_vars>>

NextPass1 == DoPass

SpecPass1 == InitPass1 /\ [][NextPass1]_vars

\* C19: a call of pass 1 on the AST and the table of an earlier call
\* leaves the table and the output AST as that earlier call left them.
C19_PassOneTwice ==
    [][idx >= 2 => symbol_table' = symbol_table /\ collect_label_tree' = collect_label_tree]_vars

\* Pass 1 has run twice on an AST with a label behind an instruction and
\* a node that is no label.
C19_Witness ==
    /\ pc = "do_pass"
    /\ idx = 3
    /\ \E name \in DOMAIN symbol_table : symbol_table[name] > 0
    /\ collect_label_tree # << >>

(* ------------------------------------------------------------------ *)
(* Pass 2: one output node per input node, and undefined identifiers    *)
(* ------------------------------------------------------------------ *)

Started(stage) == stage \in {stages_run[k] : k \in 1..Len(stages_run)}

\* The number of collect_label_tree nodes pass 2 has gone through.
Resolved ==
    IF ~Started("pass2") THEN 0
    ELSE IF pc = "pass2" THEN idx - 1
    ELSE Len(collect_label_tree)

\* out is node with each Identifier argument either kept or, when its
\* label is defined, replaced by a NumberLiteral.
SameVariant(node, out) ==
    /\ out.expr = node.expr
    /\ out.name = node.name
    /\ Len(out.args) = Len(node.args)
    /\ \A k \in 1..Len(node.args) :
          \/ out.args[k] = node.args[k]
          \/ /\ node.args[k].kind = "Identifier"
             /\ has_label(symbol_table, node.args[k].name)
             /\ out.args[k].kind = "NumberLiteral"

\* C21: pass 2 has pushed exactly one node for each node it has gone
\* through, in the same order and of the same variant, with nothing but
\* identifiers of defined labels replaced.
C21_OneNodePerNode ==
    Started("pass2") =>
        /\ Len(resolve_label_tree) = Resolved
        /\ \A i \in 1..Resolved :
              IF collect_label_tree[i].expr \in InstructionVariants
              THEN SameVariant(collect_label_tree[i], resolve_label_tree[i])
              ELSE resolve_label_tree[i] = collect_label_tree[i]

\* The nodes among the first n of collect_label_tree that are instructions
\* with an Identifier argument, at any position, that the table lacks.
UndefinedUses(n) ==
    {i \in 1..n :
        /\ collect_label_tree[i].expr \in InstructionVariants
        /\ \E k \in 1..Len(collect_label_tree[i].args) :
              /\ collect_label_tree[i].args[k].kind = "Identifier"
              /\ ~has_label(symbol_table, collect_label_tree[i].args[k].name)}

\* C22: for each instruction pass 2 has gone through that has an
\* Identifier argument missing from the symbol table, pass 2 has recorded
\* a "Label not found" Error and its output holds the node unchanged.
C22_UndefinedIdentifierReported ==
    Started("pass2") =>
        /\ Cardinality({k \in 1..Len(error_messages.pass2) :
                           error_messages.pass2[k] = ErrorMessage(LabelNotFound)})
              >= Cardinality(UndefinedUses(Resolved))
        /\ \A i \in UndefinedUses(Resolved) :
              \E j \in 1..Len(resolve_label_tree) :
                  resolve_src[j] = collect_src[i] /\ resolve_label_tree[j] = collect_label_tree[i]

(* ------------------------------------------------------------------ *)
(* Operands resolved from labels: sources of up to MaxOperandLen        *)
(* statements with labels above $FFFF                                   *)
(* ------------------------------------------------------------------ *)

MaxOperandLen == 3

\* A label, origins that put it at $12345 and at $1000000, and uses of it
\* as an immediate, absolute, long, indexed and relative operand.
OperandStatements ==
    { Label("a"),
      OriginStatement(74565),
      OriginStatement(16777216),
      Instr("ImpliedInstruction", "nop", << >>),
      Instr("ImmediateInstruction", "lda", <<Identifier("a")>>),
      Instr("SingleArgumentInstruction", "jmp", <<Identifier("a")>>),
      Instr("SingleArgumentInstruction", "jsl", <<Identifier("a")>>),
      Instr("IndexedInstruction", "lda", <<Identifier("a"), RegisterArg("x")>>),
      Instr("SingleArgumentInstruction", "bra", <<Identifier("a")>>) }

InitOperand ==
    \E statements \in SeqsUpTo(OperandStatements, MaxOperandLen) :
        InitPipeline(statements, FALSE, EmptyFile)

SpecOperand == InitOperand /\ [][Next]_vars

\* value modulo 2^(bit width of size); a Word32 value is whole.
Truncated(value, size) ==
    CASE size = "Word8" -> value % 256
      [] size = "Word16" -> value % 65536
      [] size = "Word24" -> value % 16777216
      [] OTHER -> value

\* C23: in the output of pass 2, the NumberLiteral that stands for an
\* Identifier operand of a non-branch instruction holds the address of the
\* label truncated to the literal's size, and so is below 2^(bit width).
C23_ResolvedOperandTruncated ==
    \A j \in 1..Len(resolve_label_tree) :
        LET out == resolve_label_tree[j]
            node == parse_tree[resolve_src[j]]
        IN (/\ out.expr \in InstructionVariants
            /\ ~is_branching_instruction(out.name)
            /\ Len(out.args) >= 1
            /\ node.args[1].kind = "Identifier"
            /\ out.args[1].kind = "NumberLiteral") =>
               /\ out.args[1].number =
                     Truncated(address_for(symbol_table, node.args[1].name),
                               out.args[1].argument_size)
               /\ out.args[1].number < 2 ^ argument_size_to_bit_size(out.args[1].argument_size)

(* ------------------------------------------------------------------ *)
(* Pass 3: the variant of the emitted FinalInstruction                  *)
(* ------------------------------------------------------------------ *)

\* C24: a FinalInstruction that pass 3 emitted for a node is the Implied
\* variant when the query built from the node has no argument, the
\* SingleArgument variant with the first argument when it has one, and the
\* TwoArgument variant with the first two arguments when it has two.
C24_FinalVariantByQueryLength ==
    \A j \in 1..Len(instruction_tree) :
        LET out == instruction_tree[j]
            node == resolve_label_tree[j]
            arguments == QueryArgumentsFrom(node.args, 1)
        IN out.expr \in FinalVariants =>
              /\ Len(arguments) = 0 =>
                    out.expr = "FinalImpliedInstruction" /\ out.args = << >>
              /\ Len(arguments) = 1 =>
                    /\ out.expr = "FinalSingleArgumentInstruction"
                    /\ out.args = <<node.args[1]>>
              /\ Len(arguments) = 2 =>
                    /\ out.expr = "FinalTwoArgumentInstruction"
                    /\ out.args = <<node.args[1], node.args[2]>>

\* C24, amended: a FinalInstruction that pass 3 emitted for a node holds
\* the table entry found for the node; it is the Implied variant for an
\* ImpliedInstruction, the TwoArgument variant with both arguments for a
\* BlockMoveInstruction, and the SingleArgument variant with the first
\* argument for every other variant, whose queries have one, two or three
\* elements.
C24_FinalVariantByNodeVariant ==
    \A j \in 1..Len(instruction_tree) :
        LET out == instruction_tree[j]
            node == resolve_label_tree[j]
            arguments == QueryArgumentsFrom(node.args, 1)
        IN out.expr \in FinalVariants =>
              /\ node.expr \in InstructionVariants
              /\ out.instruction # 0
              /\ out.instruction =
                    find_suitable_instruction(node.name, StatementAddressings(node.expr),
                                              arguments)
              /\ CASE node.expr = "ImpliedInstruction" ->
                        /\ out.expr = "FinalImpliedInstruction"
                        /\ out.args = << >>
                        /\ Len(arguments) = 0
                   [] node.expr = "BlockMoveInstruction" ->
                        /\ out.expr = "FinalTwoArgumentInstruction"
                        /\ out.args = <<node.args[1], node.args[2]>>
                        /\ Len(arguments) = 2
                   [] OTHER ->
                        /\ out.expr = "FinalSingleArgumentInstruction"
                        /\ out.args = <<node.args[1]>>
                        /\ Len(arguments) \in 1..3

\* Pass 3 has emitted a SingleArgument FinalInstruction for an instruction
\* whose query has two elements.
C24_Witness ==
    \E j \in 1..Len(instruction_tree) :
        /\ instruction_tree[j].expr = "FinalSingleArgumentInstruction"
        /\ resolve_label_tree[j].expr \in
              {"IndexedInstruction", "IndexedIndirectInstruction",
               "IndirectIndexedInstruction", "IndirectIndexedLongInstruction"}
        /\ Len(QueryArgumentsFrom(resolve_label_tree[j].args, 1)) = 2

(* ------------------------------------------------------------------ *)
(* Pass 1: the bytes an instruction adds to current_address             *)
(* ------------------------------------------------------------------ *)

RECURSIVE SumOver(_, _, _)
SumOver(f, k, n) == IF k > n THEN 0 ELSE f[k] + SumOver(f, k + 1, n)

\* The parse_tree indices i of instructions for which pass 1 has recorded
\* the address before and after.
Measured ==
    {i \in 1..(Len(pass1_address) - 1) : parse_tree[i].expr \in InstructionVariants}

Growth(i) == pass1_address[i + 1] - pass1_address[i]

\* C25: in pass 1 an instruction adds 1 plus, per argument, the literal's
\* byte size for a NumberLiteral, the bytes of label_size for an
\* Identifier and 0 for a Register.
C25_IdentifierAddsLabelSize ==
    \A i \in Measured :
        LET node == parse_tree[i]
            bytes == [k \in 1..Len(node.args) |->
                        CASE node.args[k].kind = "NumberLiteral" ->
                                argument_size_to_byte_size(node.args[k].argument_size)
                          [] node.args[k].kind = "Identifier" ->
                                argument_size_to_byte_size(system.label_size)
                          [] OTHER -> 0]
        IN Growth(i) = 1 + SumOver(bytes, 1, Len(node.args))

\* C25, amended: in pass 1 an instruction adds 1 plus, per argument, the
\* literal's byte size for a NumberLiteral, 0 for a Register, and for an
\* Identifier the bytes of label_size in the Immediate arm and, in every
\* other arm, the bytes of the size find_instruction_argument_size returns
\* for the mnemonic and the addressing modes of the arm, label_size being
\* used only when it returns none.
C25_IdentifierAddsOperandSize ==
    \A i \in Measured :
        LET node == parse_tree[i]
            bytes == [k \in 1..Len(node.args) |->
                        CASE node.args[k].kind = "NumberLiteral" ->
                                argument_size_to_byte_size(node.args[k].argument_size)
                          [] node.args[k].kind = "Identifier" ->
                                IF node.expr = "ImmediateInstruction"
                                THEN argument_size_to_byte_size(system.label_size)
                                ELSE IF find_instruction_argument_size(
                                            node.name, CollectAddressings(node.expr)[k]) = NoSize
                                THEN argument_size_to_byte_size(system.label_size)
                                ELSE argument_size_to_byte_size(
                                        find_instruction_argument_size(
                                            node.name, CollectAddressings(node.expr)[k]))
                          [] OTHER -> 0]
        IN Growth(i) = 1 + SumOver(bytes, 1, Len(node.args))

\* Pass 1 has gone through a branch to a label: opcode and one byte.
C25_Witness ==
    \E i \in Measured :
        /\ parse_tree[i].expr = "SingleArgumentInstruction"
        /\ parse_tree[i].name = "bra"
        /\ parse_tree[i].args[1].kind = "Identifier"
        /\ Growth(i) = 2
        /\ argument_size_to_byte_size(system.label_size) = 2

(* ------------------------------------------------------------------ *)
(* The parser: an opcode followed by the start of a statement           *)
(* ------------------------------------------------------------------ *)

\* C26: in files that hold only statements of the grammar, an opcode
\* directly followed by another opcode, a directive keyword or the end of
\* the file is parsed as an ImpliedInstruction followed by that statement:
\* no error is recorded, and a root file without include directives gives
\* the nodes of its lines, in order.
C26_ImpliedBeforeStatement ==
    LET root == sources["r"]
    IN (/\ pc = "parsed"
        /\ HasLine(root, "nop")
        /\ \A f \in DOMAIN sources : ~HasLine(sources[f], "lda ,")) =>
           /\ error_messages.parse = << >>
           /\ (~HasLine(root, "include a") /\ ~HasLine(root, "include b")) =>
                 parse_tree = LineNodes(root)

(* ------------------------------------------------------------------ *)
(* The parser: `#` and directive keywords without their argument        *)
(* ------------------------------------------------------------------ *)

MaxDirectiveLines == 3

\* Lines that end after `#` or after a directive keyword, and statements
\* that may follow them.
DirectiveLines == {"lda #", "origin", "snesmap", "incbin", "include", "nop", "origin $10"}

IncompleteLines == {"lda #", "origin", "snesmap", "incbin", "include"}

\* A root file of up to MaxDirectiveLines of these lines, alone in its
\* directory.
InitDirective ==
    /\ system = SNES_CPU
    /\ pc = "parse_tree"
    /\ \E root \in SeqsUpTo(DirectiveLines, MaxDirectiveLines) :
          sources = [r |-> root, a |-> << >>, b |-> << >>]
    /\ files = [f \in DOMAIN sources |-> Flatten(sources[f])]
    /\ lexer_results = [f \in DOMAIN files |-> LexerResults(files[f])]
    /\ lexers = <<FileLexer("r", files["r"], NewLexer)>>
    /\ current_lexer = 0
    /\ include_stack = << >>
    /\ last_parse = NoParse
    /\ PipelineIdle
    /\ NumberIdle
    /\ LexerIdle

SpecDirective == InitDirective /\ [][NextParser]_vars

\* C27: when parse_tree has returned on a root file with a line that ends
\* after `#` or after origin, snesmap, incbin or include, whatever follows
\* it, the error list is not empty.
C27_MissingArgumentReported ==
    (pc = "parsed" /\ \E l \in IncompleteLines : HasLine(sources["r"], l)) =>
        error_messages.parse # << >>

(* ------------------------------------------------------------------ *)
(* The lexer after reset                                                *)
(* ------------------------------------------------------------------ *)

\* C28: right after reset the lexer has the fields from_file gives a new
\* lexer, and the tokens it has returned since then, with their line and
\* columns, are the first tokens a new lexer returns on the same content.
C28_ResetIsFresh ==
    /\ last_call.kind = "reset" => Fields = NewLexer
    /\ returned = TokensFrom(file_content, NewLexer, Len(returned))

(* ------------------------------------------------------------------ *)
(* What the output writer receives                                      *)
(* ------------------------------------------------------------------ *)

\* C29: when the writer runs, its tree holds no instruction node that is
\* not a FinalInstruction, no FinalInstruction with an Identifier
\* argument, and exactly one FinalInstruction for each instruction of the
\* parsed source, none coming twice from the same instruction.
C29_WriterReceivesFinalInstructions ==
    pc \in {"write", "done"} =>
        LET finals == {j \in 1..Len(instruction_tree) :
                          instruction_tree[j].expr \in FinalVariants}
            instructions == {i \in 1..Len(parse_tree) :
                                parse_tree[i].expr \in InstructionVariants}
        IN /\ \A j \in 1..Len(instruction_tree) :
                 instruction_tree[j].expr \notin InstructionVariants
           /\ \A j \in finals :
                 \A k \in 1..Len(instruction_tree[j].args) :
                     instruction_tree[j].args[k].kind # "Identifier"
           /\ {statement_src[j] : j \in finals} = instructions
           /\ \A j, k \in finals : statement_src[j] = statement_src[k] => j = k

(* ------------------------------------------------------------------ *)
(* parse_tree on files that include themselves or each other            *)
(* ------------------------------------------------------------------ *)

MaxCycleLines == 2

MaxCycleIncludedLines == 1

IncludeLines == {"include r", "include a", "include b"}

\* The statements of the root file stand after its include directives,
\* and the other files hold include directives only: a statement that is
\* read again on every round of a cycle makes the list of nodes grow
\* without end.
IncludesFirst(ls) ==
    \A i, j \in 1..Len(ls) : i < j => ~(ls[i] = "nop" /\ ls[j] # "nop")

CycleSources ==
    {s \in {[r |-> root, a |-> leaf, b |-> inner] :
                root \in SeqsUpTo(IncludeLines \cup {"nop"}, MaxCycleLines),
                leaf \in SeqsUpTo(IncludeLines, MaxCycleIncludedLines),
                inner \in SeqsUpTo(IncludeLines, MaxCycleIncludedLines)} :
        /\ IncludesFirst(s.r)
        /\ HasLine(s.r, "include a") \/ HasLine(s.b, "include a") \/ s.a = << >>
        /\ HasLine(s.r, "include b") \/ HasLine(s.a, "include b") \/ s.b = << >>}

InitInclude ==
    /\ system = SNES_CPU
    /\ pc = "parse_tree"
    /\ sources \in CycleSources
    /\ files = [f \in DOMAIN sources |-> Flatten(sources[f])]
    /\ lexer_results = [f \in DOMAIN files |-> LexerResults(files[f])]
    /\ lexers = <<FileLexer("r", files["r"], NewLexer)>>
    /\ current_lexer = 0
    /\ include_stack = << >>
    /\ last_parse = NoParse
    /\ PipelineIdle
    /\ NumberIdle
    /\ LexerIdle

\* The loop of parse_tree has no exit but its break and is not
\* interrupted: an iteration that can be taken is taken.
SpecInclude == InitInclude /\ [][NextParser]_vars /\ WF_vars(NextParser)

\* C30: parse_tree terminates on every finite input: every call of parse
\* takes a token or reports the end of a file, and whatever files the
\* include directives name (a file that includes itself, a cycle of
\* includes), the parser eventually reaches the end of the root file and
\* returns.
C30_ParseTreeReturns == <>(pc = "parsed")

====
